---- MODULE Spec2Model ----
(***************************************************************************)
(* Chunk exclusion (src/hypertable_restrict_info.c) and background-job     *)
(* statistics (src/bgw/job_stat.c) of TimescaleDB as state machines.       *)
(*                                                                         *)
(*   Spec       the HypertableRestrictInfo of one planning call: create,   *)
(*              one add_restrict_info per clause, get_chunk_oids.          *)
(*   SpecOrder  one closed-dimension accumulator fed equality clauses,     *)
(*              with the list of clauses fed so far.                       *)
(*   SpecJob    the bgw_job_stat row of one job.                           *)
(*   SpecBackoff  one call of calculate_next_start_on_failure.             *)
(*   SpecAcc    one accumulator, open or closed, under add and slices.     *)
(*   SpecCommute  two sets that ingest a clause and its commuted twin.     *)
(***************************************************************************)
EXTENDS Integers, Sequences, FiniteSets, TLC

(***************************************************************************)
(* Bounds of the model.                                                    *)
(***************************************************************************)
\* column values are 0..MaxVal
MaxVal == 2
\* an array literal of an ANY/ALL clause has at most MaxArrayLen elements
MaxArrayLen == 2
\* at most MaxClauses clauses are ingested into one HypertableRestrictInfo
MaxClauses == 2
\* at most MaxOrderLen equality clauses are fed to the accumulator of SpecOrder
MaxOrderLen == 3
\* at most MaxRuns calls of bgw_job_stat_mark_start for the job of SpecJob
MaxRuns == 4
\* schedule_interval and retry_period of the job are 0..MaxInterval
MaxInterval == 1
\* the clock of SpecJob reads 0..MaxTime
MaxTime == 2
\* consecutive_failures of SpecBackoff is 1..MaxFailures
MaxFailures == 33
\* at most MaxAdds calls of add on the accumulator of SpecAcc
MaxAdds == 3
\* at most MaxTwins clauses are ingested by the two sets of SpecCommute
MaxTwins == 2

Vals == 0..MaxVal

(***************************************************************************)
(* PostgreSQL's btree strategy numbers, as the switch statements use them. *)
(***************************************************************************)
InvalidStrategy == 0
BTLessStrategyNumber == 1
BTLessEqualStrategyNumber == 2
BTEqualStrategyNumber == 3
BTGreaterEqualStrategyNumber == 4
BTGreaterStrategyNumber == 5

Strategies == BTLessStrategyNumber..BTGreaterStrategyNumber

\* List *: a sequence; NIL is the empty list.
NIL == <<>>

\* The content of a palloc'd int64 that was never assigned.  The code reads a
\* bound only behind a test of its strategy (|| short-circuits at lines 107 and
\* 116) or hands it to a slice scan whose strategy is InvalidStrategy, so no
\* comparison ever sees it; BoundsInitialised below checks exactly that.
Indeterminate == -1

\* A NULL element of an array literal (isnull of array_iterate).
NullElem == -1

SeqsUpTo(S, n) == UNION {[1..k -> S] : k \in 0..n}

Range(s) == {s[i] : i \in DOMAIN s}

(***************************************************************************)
(* External collaborators (4.4 and 6 of the specification).                *)
(***************************************************************************)
\* time_value_to_internal: a column value in the internal time representation.
\* For a date or timestamp this is a strictly increasing affine map (a unit
\* conversion); InternalUnit internal units make one unit of the column.
InternalUnit == 2

time_value_to_internal(datum) == datum * InternalUnit

\* partitioning_func_apply: the hash partition of a value, pure and with a fixed
\* modulus; values 0 and NumPartitions collide.
NumPartitions == 2

partitioning_func_apply(datum) == datum % NumPartitions

\* The slices stored for a dimension, [range_start, range_end) each.  An open
\* dimension is cut into slices of SliceWidth internal units that cover every
\* value; a closed dimension has one slice per partition.
SliceWidth == 3

Slice(dim, s, e) == [dimension_id |-> dim, range_start |-> s, range_end |-> e]

StoredSlices(d) ==
    IF d.type = "OPEN"
    THEN {Slice(d.id, k * SliceWidth, (k + 1) * SliceWidth) :
             k \in 0..(time_value_to_internal(MaxVal) \div SliceWidth)}
    ELSE {Slice(d.id, p, p + 1) : p \in 0..(NumPartitions - 1)}

StrategyHolds(strategy, a, b) ==
    CASE strategy = BTLessStrategyNumber -> a < b
      [] strategy = BTLessEqualStrategyNumber -> a <= b
      [] strategy = BTEqualStrategyNumber -> a = b
      [] strategy = BTGreaterEqualStrategyNumber -> a >= b
      [] strategy = BTGreaterStrategyNumber -> a > b

\* A DimensionVec is a sequence of slices; the scans return it sorted.
RECURSIVE SortedVec(_)
SortedVec(S) ==
    IF S = {} THEN <<>>
    ELSE LET m == CHOOSE x \in S : \A y \in S : x.range_start <= y.range_start
         IN <<m>> \o SortedVec(S \ {m})

\* dimension_slice_scan_range_limit(dimension_id, start_strategy, start_value,
\* end_strategy, end_value, 0): the slices of the dimension with
\* range_start <start_strategy> start_value and range_end <end_strategy>
\* end_value, a side with InvalidStrategy being no condition.
dimension_slice_scan_range_limit(d, start_strategy, start_value, end_strategy, end_value) ==
    SortedVec({s \in StoredSlices(d) :
        /\ start_strategy = InvalidStrategy
              \/ StrategyHolds(start_strategy, s.range_start, start_value)
        /\ end_strategy = InvalidStrategy
              \/ StrategyHolds(end_strategy, s.range_end, end_value)})

\* dimension_vec_add_unique_slice: append unless already there.
dimension_vec_add_unique_slice(vec, slice) ==
    IF slice \in Range(vec) THEN vec ELSE Append(vec, slice)

(***************************************************************************)
(* The accumulators (DimensionRestrictInfoOpen / Closed).                  *)
(***************************************************************************)
dimension_restrict_info_open_create(d) ==
    [dimension |-> d,
     lower_bound |-> Indeterminate, lower_strategy |-> InvalidStrategy,
     upper_bound |-> Indeterminate, upper_strategy |-> InvalidStrategy]

dimension_restrict_info_closed_create(d) ==
    [dimension |-> d, partitions |-> NIL, strategy |-> InvalidStrategy]

\* DimensionValues
dimension_values_create(values, use_or) == [values |-> values, use_or |-> use_or]

\* An add returns the accumulator it leaves and its bool result.
Ret(dri, added) == [dri |-> dri, added |-> added]

\* (mutant) the equality branch forgets restriction_added = true
open_add_value_eq_unreported(dri, strategy, datum) ==
    LET value == time_value_to_internal(datum) IN
    CASE strategy \in {BTLessEqualStrategyNumber, BTLessStrategyNumber} ->
            IF dri.upper_strategy = InvalidStrategy \/ value < dri.upper_bound
            THEN Ret([dri EXCEPT !.upper_strategy = strategy, !.upper_bound = value], TRUE)
            ELSE Ret(dri, FALSE)
      [] strategy \in {BTGreaterEqualStrategyNumber, BTGreaterStrategyNumber} ->
            IF dri.lower_strategy = InvalidStrategy \/ value > dri.lower_bound
            THEN Ret([dri EXCEPT !.lower_strategy = strategy, !.lower_bound = value], TRUE)
            ELSE Ret(dri, FALSE)
      [] strategy = BTEqualStrategyNumber ->
            Ret([dri EXCEPT !.lower_bound = value, !.upper_bound = value,
                            !.lower_strategy = BTGreaterEqualStrategyNumber,
                            !.upper_strategy = BTLessEqualStrategyNumber], FALSE)
      [] OTHER -> Ret(dri, FALSE)

\* (mutant) a bound is replaced by an equal value too
open_add_value_replace_on_equal(dri, strategy, datum) ==
    LET value == time_value_to_internal(datum) IN
    CASE strategy \in {BTLessEqualStrategyNumber, BTLessStrategyNumber} ->
            IF dri.upper_strategy = InvalidStrategy \/ value <= dri.upper_bound
            THEN Ret([dri EXCEPT !.upper_strategy = strategy, !.upper_bound = value], TRUE)
            ELSE Ret(dri, FALSE)
      [] strategy \in {BTGreaterEqualStrategyNumber, BTGreaterStrategyNumber} ->
            IF dri.lower_strategy = InvalidStrategy \/ value >= dri.lower_bound
            THEN Ret([dri EXCEPT !.lower_strategy = strategy, !.lower_bound = value], TRUE)
            ELSE Ret(dri, FALSE)
      [] strategy = BTEqualStrategyNumber ->
            Ret([dri EXCEPT !.lower_bound = value, !.upper_bound = value,
                            !.lower_strategy = BTGreaterEqualStrategyNumber,
                            !.upper_strategy = BTLessEqualStrategyNumber], TRUE)
      [] OTHER -> Ret(dri, FALSE)

\* (mutant) an equality keeps a bound that is already tighter
open_add_value_eq_tightens(dri, strategy, datum) ==
    LET value == time_value_to_internal(datum) IN
    CASE strategy \in {BTLessEqualStrategyNumber, BTLessStrategyNumber} ->
            IF dri.upper_strategy = InvalidStrategy \/ value < dri.upper_bound
            THEN Ret([dri EXCEPT !.upper_strategy = strategy, !.upper_bound = value], TRUE)
            ELSE Ret(dri, FALSE)
      [] strategy \in {BTGreaterEqualStrategyNumber, BTGreaterStrategyNumber} ->
            IF dri.lower_strategy = InvalidStrategy \/ value > dri.lower_bound
            THEN Ret([dri EXCEPT !.lower_strategy = strategy, !.lower_bound = value], TRUE)
            ELSE Ret(dri, FALSE)
      [] strategy = BTEqualStrategyNumber ->
            LET up == dri.upper_strategy = InvalidStrategy \/ value < dri.upper_bound
                lo == dri.lower_strategy = InvalidStrategy \/ value > dri.lower_bound
            IN Ret([dri EXCEPT
                      !.lower_bound = IF lo THEN value ELSE @,
                      !.upper_bound = IF up THEN value ELSE @,
                      !.lower_strategy = IF lo THEN BTGreaterEqualStrategyNumber ELSE @,
                      !.upper_strategy = IF up THEN BTLessEqualStrategyNumber ELSE @], TRUE)
      [] OTHER -> Ret(dri, FALSE)

\* (mutant) an equality closes the interval with an exclusive upper bound
open_add_value_eq_exclusive(dri, strategy, datum) ==
    LET value == time_value_to_internal(datum) IN
    CASE strategy \in {BTLessEqualStrategyNumber, BTLessStrategyNumber} ->
            IF dri.upper_strategy = InvalidStrategy \/ value < dri.upper_bound
            THEN Ret([dri EXCEPT !.upper_strategy = strategy, !.upper_bound = value], TRUE)
            ELSE Ret(dri, FALSE)
      [] strategy \in {BTGreaterEqualStrategyNumber, BTGreaterStrategyNumber} ->
            IF dri.lower_strategy = InvalidStrategy \/ value > dri.lower_bound
            THEN Ret([dri EXCEPT !.lower_strategy = strategy, !.lower_bound = value], TRUE)
            ELSE Ret(dri, FALSE)
      [] strategy = BTEqualStrategyNumber ->
            Ret([dri EXCEPT !.lower_bound = value, !.upper_bound = value,
                            !.lower_strategy = BTGreaterEqualStrategyNumber,
                            !.upper_strategy = BTLessStrategyNumber], TRUE)
      [] OTHER -> Ret(dri, FALSE)

\* One iteration of the foreach of dimension_restrict_info_open_add.
open_add_value(dri, strategy, datum) ==
    LET value == time_value_to_internal(datum) IN
    CASE strategy \in {BTLessEqualStrategyNumber, BTLessStrategyNumber} ->
            IF dri.upper_strategy = InvalidStrategy \/ value < dri.upper_bound
            THEN Ret([dri EXCEPT !.upper_strategy = strategy, !.upper_bound = value], TRUE)
            ELSE Ret(dri, FALSE)
      [] strategy \in {BTGreaterEqualStrategyNumber, BTGreaterStrategyNumber} ->
            IF dri.lower_strategy = InvalidStrategy \/ value > dri.lower_bound
            THEN Ret([dri EXCEPT !.lower_strategy = strategy, !.lower_bound = value], TRUE)
            ELSE Ret(dri, FALSE)
      [] strategy = BTEqualStrategyNumber ->
            Ret([dri EXCEPT !.lower_bound = value, !.upper_bound = value,
                            !.lower_strategy = BTGreaterEqualStrategyNumber,
                            !.upper_strategy = BTLessEqualStrategyNumber], TRUE)
      [] OTHER -> Ret(dri, FALSE)

RECURSIVE open_add_foreach(_, _, _, _)
open_add_foreach(dri, strategy, values, restriction_added) ==
    IF values = NIL THEN Ret(dri, restriction_added)
    ELSE LET r == open_add_value(dri, strategy, Head(values))
         IN open_add_foreach(r.dri, strategy, Tail(values), restriction_added \/ r.added)

\* (mutant) several ORed values are not refused
open_add_no_or_guard(dri, strategy, dimValues) ==
    open_add_foreach(dri, strategy, dimValues.values, FALSE)

dimension_restrict_info_open_add(dri, strategy, dimValues) ==
    IF dimValues.use_or /\ Len(dimValues.values) > 1
    THEN Ret(dri, FALSE)
    ELSE open_add_foreach(dri, strategy, dimValues.values, FALSE)

list_append_unique_int(list, x) ==
    IF x \in Range(list) THEN list ELSE Append(list, x)

RECURSIVE get_partitions_foreach(_, _)
get_partitions_foreach(values, partitions) ==
    IF values = NIL THEN partitions
    ELSE get_partitions_foreach(Tail(values),
             list_append_unique_int(partitions, partitioning_func_apply(Head(values))))

\* (mutant) only the first value is hashed
get_partitions_first_only(values) ==
    IF values = NIL THEN NIL ELSE <<partitioning_func_apply(Head(values))>>

dimension_restrict_info_get_partitions(values) == get_partitions_foreach(values, NIL)

\* list_intersection_int(list1, list2): the members of list1 that are in list2,
\* in list1's order.
list_intersection_int(list1, list2) == SelectSeq(list1, LAMBDA x : x \in Range(list2))

\* (mutant) an empty partition list is taken for "no restriction yet"
closed_add_conflate_empty(dri, strategy, dimValues) ==
    IF strategy # BTEqualStrategyNumber THEN Ret(dri, FALSE)
    ELSE LET partitions == dimension_restrict_info_get_partitions(dimValues.values) IN
         IF Len(partitions) > 1 /\ ~dimValues.use_or
         THEN Ret([dri EXCEPT !.strategy = strategy, !.partitions = NIL], TRUE)
         ELSE IF dri.strategy = InvalidStrategy \/ dri.partitions = NIL
         THEN Ret([dri EXCEPT !.partitions = partitions, !.strategy = strategy], TRUE)
         ELSE Ret([dri EXCEPT !.partitions = list_intersection_int(dri.partitions, partitions)],
                  TRUE)

\* (mutant) a later clause replaces the partitions instead of intersecting
closed_add_overwrite(dri, strategy, dimValues) ==
    IF strategy # BTEqualStrategyNumber THEN Ret(dri, FALSE)
    ELSE LET partitions == dimension_restrict_info_get_partitions(dimValues.values) IN
         IF Len(partitions) > 1 /\ ~dimValues.use_or
         THEN Ret([dri EXCEPT !.strategy = strategy, !.partitions = NIL], TRUE)
         ELSE IF dri.strategy = InvalidStrategy
         THEN Ret([dri EXCEPT !.partitions = partitions, !.strategy = strategy], TRUE)
         ELSE IF dri.partitions = NIL
         THEN Ret(dri, TRUE)
         ELSE Ret([dri EXCEPT !.partitions = partitions], TRUE)

\* (mutant) the test for several partitions under ALL is missing
closed_add_no_contradiction(dri, strategy, dimValues) ==
    IF strategy # BTEqualStrategyNumber THEN Ret(dri, FALSE)
    ELSE LET partitions == dimension_restrict_info_get_partitions(dimValues.values) IN
         IF dri.strategy = InvalidStrategy
         THEN Ret([dri EXCEPT !.partitions = partitions, !.strategy = strategy], TRUE)
         ELSE IF dri.partitions = NIL
         THEN Ret(dri, TRUE)
         ELSE Ret([dri EXCEPT !.partitions = list_intersection_int(dri.partitions, partitions)],
                  TRUE)

\* (mutant) every strategy is taken for an equality
closed_add_any_strategy(dri, strategy, dimValues) ==
    LET partitions == dimension_restrict_info_get_partitions(dimValues.values) IN
    IF Len(partitions) > 1 /\ ~dimValues.use_or
    THEN Ret([dri EXCEPT !.strategy = BTEqualStrategyNumber, !.partitions = NIL], TRUE)
    ELSE IF dri.strategy = InvalidStrategy
    THEN Ret([dri EXCEPT !.partitions = partitions, !.strategy = BTEqualStrategyNumber], TRUE)
    ELSE IF dri.partitions = NIL
    THEN Ret(dri, TRUE)
    ELSE Ret([dri EXCEPT !.partitions = list_intersection_int(dri.partitions, partitions)],
             TRUE)

\* (mutant) the first equality is adopted and reported as not added
closed_add_first_unreported(dri, strategy, dimValues) ==
    IF strategy # BTEqualStrategyNumber THEN Ret(dri, FALSE)
    ELSE LET partitions == dimension_restrict_info_get_partitions(dimValues.values) IN
         IF Len(partitions) > 1 /\ ~dimValues.use_or
         THEN Ret([dri EXCEPT !.strategy = strategy, !.partitions = NIL], TRUE)
         ELSE IF dri.strategy = InvalidStrategy
         THEN Ret([dri EXCEPT !.partitions = partitions, !.strategy = strategy], FALSE)
         ELSE IF dri.partitions = NIL
         THEN Ret(dri, TRUE)
         ELSE Ret([dri EXCEPT !.partitions = list_intersection_int(dri.partitions, partitions)],
                  TRUE)

dimension_restrict_info_closed_add(dri, strategy, dimValues) ==
    IF strategy # BTEqualStrategyNumber THEN Ret(dri, FALSE)
    ELSE LET partitions == dimension_restrict_info_get_partitions(dimValues.values) IN
         IF Len(partitions) > 1 /\ ~dimValues.use_or
         THEN Ret([dri EXCEPT !.strategy = strategy, !.partitions = NIL], TRUE)
         ELSE IF dri.strategy = InvalidStrategy
         THEN Ret([dri EXCEPT !.partitions = partitions, !.strategy = strategy], TRUE)
         ELSE IF dri.partitions = NIL
         THEN Ret(dri, TRUE)
         ELSE Ret([dri EXCEPT !.partitions = list_intersection_int(dri.partitions, partitions)],
                  TRUE)


\* dimension_restrict_info_create; elog(ERROR) ends the call, ElogError stands
\* for "no accumulator was returned".
ElogError == [dimension |-> [type |-> "ERROR", column_attno |-> 0, id |-> 0]]

\* (mutant) a dimension of another type is given a range accumulator
create_unknown_as_open(d) ==
    CASE d.type = "CLOSED" -> dimension_restrict_info_closed_create(d)
      [] OTHER -> dimension_restrict_info_open_create(d)

dimension_restrict_info_create(d) ==
    CASE d.type = "OPEN" -> dimension_restrict_info_open_create(d)
      [] d.type = "CLOSED" -> dimension_restrict_info_closed_create(d)
      [] OTHER -> ElogError

\* dimension_restrict_info_add; the default branch is elog(ERROR).
dimension_restrict_info_add(dri, strategy, values) ==
    CASE dri.dimension.type = "OPEN" -> dimension_restrict_info_open_add(dri, strategy, values)
      [] dri.dimension.type = "CLOSED" -> dimension_restrict_info_closed_add(dri, strategy, values)
      [] OTHER -> Ret(ElogError, FALSE)

(***************************************************************************)
(* Slice Resolver.                                                         *)
(***************************************************************************)
dimension_restrict_info_open_slices(dri) ==
    dimension_slice_scan_range_limit(dri.dimension,
        dri.upper_strategy, dri.upper_bound, dri.lower_strategy, dri.lower_bound)

\* (mutant) the slices of a partition are appended without the uniqueness test
RECURSIVE closed_slices_inner_append(_, _)
closed_slices_inner_append(tmp, dim_vec) ==
    IF tmp = <<>> THEN dim_vec
    ELSE closed_slices_inner_append(Tail(tmp), Append(dim_vec, Head(tmp)))

RECURSIVE closed_slices_inner(_, _)
closed_slices_inner(tmp, dim_vec) ==
    IF tmp = <<>> THEN dim_vec
    ELSE closed_slices_inner(Tail(tmp), dimension_vec_add_unique_slice(dim_vec, Head(tmp)))

RECURSIVE closed_slices_foreach(_, _, _)
closed_slices_foreach(dri, partitions, dim_vec) ==
    IF partitions = NIL THEN dim_vec
    ELSE LET partition == Head(partitions)
             tmp == dimension_slice_scan_range_limit(dri.dimension,
                        BTLessEqualStrategyNumber, partition,
                        BTGreaterEqualStrategyNumber, partition)
         IN closed_slices_foreach(dri, Tail(partitions), closed_slices_inner(tmp, dim_vec))

dimension_restrict_info_closed_slices(dri) ==
    IF dri.strategy = BTEqualStrategyNumber
    THEN closed_slices_foreach(dri, dri.partitions, <<>>)
    ELSE dimension_slice_scan_range_limit(dri.dimension,
             InvalidStrategy, -1, InvalidStrategy, -1)

\* dimension_restrict_info_slices; the default branch is elog(ERROR).
dimension_restrict_info_slices(dri) ==
    CASE dri.dimension.type = "OPEN" -> dimension_restrict_info_open_slices(dri)
      [] dri.dimension.type = "CLOSED" -> dimension_restrict_info_closed_slices(dri)
      [] OTHER -> <<ElogError>>

(***************************************************************************)
(* The hypertable: its dimensions and its chunks.                          *)
(***************************************************************************)
\* Dimension i of the space; its column is attribute i + 1 of the table
\* (attribute 1 is a column that is no dimension).
Dimension(i, type) == [type |-> type, column_attno |-> i + 1, id |-> i]

Hypertable(types) == [i \in 1..Len(types) |-> Dimension(i, types[i])]

\* The dimension configurations: a hypertable has an open (time) dimension and
\* may have further closed or open ones; DIMENSION_TYPE_ANY is a type with no
\* accumulator.
DimConfigs ==
    {<<"OPEN">>, <<"OPEN", "CLOSED">>, <<"CLOSED", "OPEN">>, <<"OPEN", "OPEN">>,
     <<"OPEN", "ANY">>}

Attnos == 1..3

\* A chunk has one slice per dimension; every combination of slices is a chunk.
Chunks(ht) ==
    {c \in [1..Len(ht) -> UNION {StoredSlices(ht[i]) : i \in 1..Len(ht)}] :
        \A i \in 1..Len(ht) : c[i] \in StoredSlices(ht[i])}

\* chunk_find_all_oids(space, dimension_vecs): the chunks whose slice is in the
\* candidate vector of its dimension, for every dimension.
chunk_find_all_oids(ht, dimension_vecs) ==
    {c \in Chunks(ht) : \A i \in 1..Len(dimension_vecs) : c[i] \in Range(dimension_vecs[i])}

(***************************************************************************)
(* Restriction Aggregator.                                                 *)
(***************************************************************************)
\* What hypertable_restrict_info_create leaves when dimension_restrict_info_create
\* raises: nothing.
NoHri == [num_base_restrictions |-> 0, num_dimensions |-> 0, dimension_restriction |-> <<>>]

\* (mutant) the accumulators are laid out in the reverse order of the dimensions
hri_create_reversed(ht) ==
    [num_base_restrictions |-> 0,
     num_dimensions |-> Len(ht),
     dimension_restriction |->
         [i \in 1..Len(ht) |-> dimension_restrict_info_create(ht[Len(ht) + 1 - i])]]

hypertable_restrict_info_create(ht) ==
    [num_base_restrictions |-> 0,
     num_dimensions |-> Len(ht),
     dimension_restriction |-> [i \in 1..Len(ht) |-> dimension_restrict_info_create(ht[i])]]

\* (mutant) every column of a dimension leads to the first accumulator
hri_get_first(hri, attno) ==
    IF \E i \in 1..hri.num_dimensions :
           hri.dimension_restriction[i].dimension.column_attno = attno
    THEN 1 ELSE 0

\* hypertable_restrict_info_get: the index of the first accumulator whose
\* dimension has the column, 0 for NULL.
hypertable_restrict_info_get(hri, attno) ==
    LET hits == {i \in 1..hri.num_dimensions :
                    hri.dimension_restriction[i].dimension.column_attno = attno}
    IN IF hits = {} THEN 0 ELSE CHOOSE i \in hits : \A j \in hits : i <= j

hypertable_restrict_info_has_restrictions(hri) == hri.num_base_restrictions > 0

\* (mutant) the loop goes on after a dimension without slices
RECURSIVE get_chunk_oids_loop_no_return(_, _, _, _)
get_chunk_oids_loop_no_return(hri, ht, i, dimension_vecs) ==
    IF i > hri.num_dimensions
    THEN [oids |-> chunk_find_all_oids(ht, dimension_vecs), called |-> TRUE,
          args |-> dimension_vecs]
    ELSE get_chunk_oids_loop_no_return(hri, ht, i + 1,
             Append(dimension_vecs, dimension_restrict_info_slices(hri.dimension_restriction[i])))

\* hypertable_restrict_info_get_chunk_oids: the loop over the dimensions, from
\* dimension i on, with the vectors collected so far.  called tells whether
\* chunk_find_all_oids was called and args is what it was called with.
RECURSIVE get_chunk_oids_loop(_, _, _, _)
get_chunk_oids_loop(hri, ht, i, dimension_vecs) ==
    IF i > hri.num_dimensions
    THEN [oids |-> chunk_find_all_oids(ht, dimension_vecs), called |-> TRUE,
          args |-> dimension_vecs]
    ELSE LET dv == dimension_restrict_info_slices(hri.dimension_restriction[i])
         IN IF Len(dv) = 0
            THEN [oids |-> {}, called |-> FALSE, args |-> <<>>]
            ELSE get_chunk_oids_loop(hri, ht, i + 1, Append(dimension_vecs, dv))

hypertable_restrict_info_get_chunk_oids(hri, ht) == get_chunk_oids_loop(hri, ht, 1, NIL)


(***************************************************************************)
(* Clause Classifier.                                                      *)
(*                                                                         *)
(* A clause is [tag, args, opno, useOr]; an operand is a node after its    *)
(* RelabelType wrapper is stripped (lines 338-341):                        *)
(*   Var            a column of the table, by varattno                     *)
(*   Const          a literal: a value, or an array of values and NULLs    *)
(*   ImmutableExpr  an expression eval_const_expressions folds to `value`  *)
(*   VolatileExpr   an expression with a mutable function, such as now()   *)
(*   Param          an expression that does not fold and is not mutable    *)
(***************************************************************************)
Var(attno) == [node |-> "Var", varattno |-> attno, value |-> <<>>]

\* value is <<v>> for a scalar literal and the sequence of elements for an array
Const(value) == [node |-> "Const", varattno |-> 0, value |-> value]

ImmutableExpr(value) == [node |-> "ImmutableExpr", varattno |-> 0, value |-> value]

VolatileExpr == [node |-> "VolatileExpr", varattno |-> 0, value |-> <<>>]

Param == [node |-> "Param", varattno |-> 0, value |-> <<>>]

\* The operators of the catalog: the five of the btree operator family of the
\* column's type, "<>" (strict, not in the family), "=?" (in the family as
\* equality, not strict), "<<" (in the family as less, without a commutator) and
\* "=~" (in the family as equality, strict, computed by a stable function, as
\* the comparisons of a timestamptz with a date are).
Operators == {"<", "<=", "=", ">=", ">", "<>", "=?", "<<", "=~"}

BtreeOperators == {"<", "<=", "=", ">=", ">"}

InvalidOid == "InvalidOid"

get_commutator(op) ==
    CASE op = "<" -> ">"
      [] op = "<=" -> ">="
      [] op = "=" -> "="
      [] op = ">=" -> "<="
      [] op = ">" -> "<"
      [] op = "<>" -> "<>"
      [] op = "=?" -> "=?"
      [] op = "=~" -> "=~"
      [] OTHER -> InvalidOid

OidIsValid(op) == op # InvalidOid

op_strict(op) == op # "=?"

op_in_opfamily(op) == op \in BtreeOperators \cup {"=?", "<<", "=~"}

\* get_op_opfamily_properties: the strategy of an operator of the family.
get_op_opfamily_properties(op) ==
    CASE op \in {"<", "<<"} -> BTLessStrategyNumber
      [] op = "<=" -> BTLessEqualStrategyNumber
      [] op \in {"=", "=?", "=~"} -> BTEqualStrategyNumber
      [] op = ">=" -> BTGreaterEqualStrategyNumber
      [] op = ">" -> BTGreaterStrategyNumber

\* the function of the operator, or one in an operand, is not immutable
contain_mutable_functions(e) ==
    e.opno = "=~" \/ \E i \in DOMAIN e.args : e.args[i].node = "VolatileExpr"

eval_const_expressions(expr) ==
    IF expr.node = "ImmutableExpr" THEN [expr EXCEPT !.node = "Const"] ELSE expr

\* dimension_values_create_from_array: the non-null elements, in order.
dimension_values_create_from_array(c, use_or) ==
    dimension_values_create(SelectSeq(c.value, LAMBDA elem : elem # NullElem), use_or)

dimension_values_create_from_single_element(c, use_or) ==
    dimension_values_create(<<c.value[1]>>, use_or)

\* What hypertable_restrict_info_add_expr returns: the set it leaves, its bool
\* result, and how far it got: dim is the index of the accumulator it called
\* dimension_restrict_info_add on (line 385), 0 when it returned before that.
ExprRet(hri, added, dim, strategy) ==
    [hri |-> hri, added |-> added, dim |-> dim, strategy |-> strategy]

\* (mutant) the operator is kept as written when the column is on the right
add_expr_no_commute(hri, expr_args, opno, from_array, use_or) ==
    IF Len(expr_args) # 2 THEN ExprRet(hri, FALSE, 0, InvalidStrategy)
    ELSE
    LET leftop == expr_args[1]
        rightop == expr_args[2]
        found == leftop.node = "Var" \/ rightop.node = "Var"
        v == IF leftop.node = "Var" THEN leftop ELSE rightop
        expr0 == IF leftop.node = "Var" THEN rightop ELSE leftop
        op_oid == opno
        dri == hypertable_restrict_info_get(hri, v.varattno)
        expr == eval_const_expressions(expr0)
    IN
    IF ~found THEN ExprRet(hri, FALSE, 0, InvalidStrategy)
    ELSE IF dri = 0 THEN ExprRet(hri, FALSE, 0, InvalidStrategy)
    ELSE IF expr.node # "Const" \/ ~OidIsValid(op_oid) \/ ~op_strict(op_oid)
    THEN ExprRet(hri, FALSE, 0, InvalidStrategy)
    ELSE IF ~op_in_opfamily(op_oid) THEN ExprRet(hri, FALSE, 0, InvalidStrategy)
    ELSE
    LET strategy == get_op_opfamily_properties(op_oid)
        dimValues == IF from_array
                     THEN dimension_values_create_from_array(expr, use_or)
                     ELSE dimension_values_create_from_single_element(expr, use_or)
        r == dimension_restrict_info_add(hri.dimension_restriction[dri], strategy, dimValues)
    IN ExprRet([hri EXCEPT !.dimension_restriction[dri] = r.dri], r.added, dri, strategy)

hypertable_restrict_info_add_expr(hri, expr_args, opno, from_array, use_or) ==
    IF Len(expr_args) # 2 THEN ExprRet(hri, FALSE, 0, InvalidStrategy)
    ELSE
    LET leftop == expr_args[1]
        rightop == expr_args[2]
        found == leftop.node = "Var" \/ rightop.node = "Var"
        v == IF leftop.node = "Var" THEN leftop ELSE rightop
        expr0 == IF leftop.node = "Var" THEN rightop ELSE leftop
        op_oid == IF leftop.node = "Var" THEN opno ELSE get_commutator(opno)
        dri == hypertable_restrict_info_get(hri, v.varattno)
        expr == eval_const_expressions(expr0)
    IN
    IF ~found THEN ExprRet(hri, FALSE, 0, InvalidStrategy)
    ELSE IF dri = 0 THEN ExprRet(hri, FALSE, 0, InvalidStrategy)
    ELSE IF expr.node # "Const" \/ ~OidIsValid(op_oid) \/ ~op_strict(op_oid)
    THEN ExprRet(hri, FALSE, 0, InvalidStrategy)
    ELSE IF ~op_in_opfamily(op_oid) THEN ExprRet(hri, FALSE, 0, InvalidStrategy)
    ELSE
    LET strategy == get_op_opfamily_properties(op_oid)
        dimValues == IF from_array
                     THEN dimension_values_create_from_array(expr, use_or)
                     ELSE dimension_values_create_from_single_element(expr, use_or)
        r == dimension_restrict_info_add(hri.dimension_restriction[dri], strategy, dimValues)
    IN ExprRet([hri EXCEPT !.dimension_restriction[dri] = r.dri], r.added, dri, strategy)

\* (mutant) clauses are not searched for mutable functions
add_restrict_info_switch_mutable(hri, e) ==
    CASE e.tag = "OpExpr" ->
            hypertable_restrict_info_add_expr(hri, e.args, e.opno, FALSE, FALSE)
      [] e.tag = "ScalarArrayOpExpr" ->
            hypertable_restrict_info_add_expr(hri, e.args, e.opno, TRUE, e.useOr)
      [] OTHER -> ExprRet(hri, FALSE, 0, InvalidStrategy)

\* hypertable_restrict_info_add_restrict_info without its last statement.
add_restrict_info_switch(hri, e) ==
    IF contain_mutable_functions(e) THEN ExprRet(hri, FALSE, 0, InvalidStrategy)
    ELSE CASE e.tag = "OpExpr" ->
                hypertable_restrict_info_add_expr(hri, e.args, e.opno, FALSE, FALSE)
           [] e.tag = "ScalarArrayOpExpr" ->
                hypertable_restrict_info_add_expr(hri, e.args, e.opno, TRUE, e.useOr)
           [] OTHER -> ExprRet(hri, FALSE, 0, InvalidStrategy)

\* (mutant) the counter counts every clause
count_restriction_always(hri, added) == [hri EXCEPT !.num_base_restrictions = @ + 1]

\* if (added) hri->num_base_restrictions++
count_restriction(hri, added) ==
    IF added THEN [hri EXCEPT !.num_base_restrictions = @ + 1] ELSE hri

hypertable_restrict_info_add_restrict_info(hri, e) ==
    LET r == add_restrict_info_switch(hri, e)
    IN [r EXCEPT !.hri = count_restriction(r.hri, r.added)]


(***************************************************************************)
(* The clauses a planner hands in.                                         *)
(***************************************************************************)
Clause(tag, args, opno, useOr) == [tag |-> tag, args |-> args, opno |-> opno, useOr |-> useOr]

ScalarLits == {<<v>> : v \in Vals}

ArrayLits == SeqsUpTo(Vals \cup {NullElem}, MaxArrayLen)

\* column op literal and literal op column, any column and operator
OpClauses ==
    {Clause("OpExpr", <<Var(a), Const(l)>>, op, FALSE) :
        a \in Attnos, l \in ScalarLits, op \in Operators}
    \cup {Clause("OpExpr", <<Const(l), Var(a)>>, op, FALSE) :
        a \in Attnos, l \in ScalarLits, op \in Operators}

\* column op ANY (array) and column op ALL (array)
ArrayClauses ==
    UNION {{Clause("ScalarArrayOpExpr", <<Var(a), Const(l)>>, op, u) :
               a \in Attnos \ {1}, l \in ArrayLits} :
           op \in BtreeOperators, u \in BOOLEAN}

\* the other shapes: a side that is an expression, two columns, two literals,
\* one or three operands, a node that is no comparison
OtherClauses ==
    UNION {{Clause("OpExpr", <<Var(a), x>>, op, FALSE), Clause("OpExpr", <<x, Var(a)>>, op, FALSE)} :
              a \in Attnos \ {1}, op \in BtreeOperators,
              x \in {VolatileExpr, Param} \cup {ImmutableExpr(l) : l \in ScalarLits}}
    \cup {Clause("OpExpr", <<Var(a), Var(b)>>, op, FALSE) :
              a \in Attnos, b \in Attnos, op \in {"<", "="}}
    \cup {Clause("OpExpr", <<Const(l), Const(m)>>, "=", FALSE) :
              l \in ScalarLits, m \in ScalarLits}
    \cup {Clause("OpExpr", <<Var(a)>>, "=", FALSE) : a \in Attnos \ {1}}
    \cup {Clause("OpExpr", <<Var(a), Const(l), Const(l)>>, "=", FALSE) :
              a \in Attnos \ {1}, l \in ScalarLits}
    \cup {Clause("NullTest", <<Var(a)>>, InvalidOid, FALSE) : a \in Attnos \ {1}}
    \cup {Clause("BoolExpr", <<Var(a), Const(l)>>, "=", FALSE) :
              a \in Attnos \ {1}, l \in ScalarLits}
    \cup {Clause("ScalarArrayOpExpr", <<Var(a), VolatileExpr>>, "=", u) :
              a \in Attnos \ {1}, u \in BOOLEAN}

Clauses == OpClauses \cup ArrayClauses \cup OtherClauses

\* The comparison an operator of the catalog computes.
OpHolds(op, a, b) ==
    CASE op \in {"<", "<<"} -> a < b
      [] op = "<=" -> a <= b
      [] op \in {"=", "=?", "=~"} -> a = b
      [] op = ">=" -> a >= b
      [] op = ">" -> a > b
      [] op = "<>" -> a # b

\* Whether a comparison clause between a column and a literal is true of a row
\* whose column holds x (SQL: a comparison with NULL is never true; ALL of no
\* element is true, ANY of no element is false).
ClauseTrue(e, x) ==
    LET varLeft == e.args[1].node = "Var"
        lit == IF varLeft THEN e.args[2].value ELSE e.args[1].value
        Cmp(y) == IF varLeft THEN OpHolds(e.opno, x, y) ELSE OpHolds(e.opno, y, x)
    IN CASE e.tag = "OpExpr" -> Cmp(lit[1])
         [] e.tag = "ScalarArrayOpExpr" /\ e.useOr ->
                \E i \in DOMAIN lit : lit[i] # NullElem /\ Cmp(lit[i])
         [] e.tag = "ScalarArrayOpExpr" /\ ~e.useOr ->
                \A i \in DOMAIN lit : lit[i] # NullElem /\ Cmp(lit[i])


(***************************************************************************)
(* State.                                                                  *)
(***************************************************************************)
VARIABLES
    \* Spec: one planning call
    pc,             \* "start", "built" (the set exists), "error" (create raised)
    ht,             \* the hypertable's dimensions, ht->space->dimensions
    hri,            \* the HypertableRestrictInfo
    ret,            \* what the most recent call of get_chunk_oids returned
    last,           \* the most recent call and how far it got
    sat,            \* per dimension, the column values that satisfy every clause
                    \* handed to the dimension's add so far
    n_clauses,      \* clauses ingested so far
    n_reported,     \* those of them for which add was called and returned true
    \* SpecOrder: one closed accumulator
    o_dri,          \* the accumulator
    o_hist,         \* the DimensionValues added to it, in order
    \* SpecJob: the statistics of one background job
    job,            \* the job's schedule_interval and retry_period
    job_stat,       \* the job's row of bgw_job_stat, NoRow before the first start
    j_now,          \* the clock, timer_get_current_timestamp()
    j_last,         \* the most recent call and whether it raised an error
    j_running,      \* a run was marked started and not yet marked ended
    j_started,      \* calls of bgw_job_stat_mark_start so far
    j_crashes_at_start, \* total_crashes as it was before the most recent mark_start
    j_since_end,    \* calls of mark_start since the most recent mark_end
    j_arg,          \* the next_start handed to the most recent set_next_start
    j_set,          \* the next_start that set_next_start stored since the most
                    \* recent mark_start, DT_NOBEGIN when it stored none
    j_streak,       \* mark_end calls with a failure since the most recent success
    j_mark,         \* the most recent of the mark_start and mark_end calls
    \* SpecBackoff: one call of calculate_next_start_on_failure
    b_args,         \* its arguments
    b_result,       \* what it returned, once it has
    \* SpecNextStart: one call of bgw_job_stat_next_start
    q_args,         \* its arguments and the clock reading it sees
    q_result,       \* what it returned, once it has
    \* SpecAcc: one accumulator, its counter and the calls made on it
    a_dri,          \* the accumulator
    a_nbr,          \* num_base_restrictions of the set that holds it
    a_last,         \* the most recent call: arguments, accumulator before, result
    a_n,            \* calls of add so far
    a_sat,          \* the column values that satisfy every clause handed to add so
                    \* far (all), and every equality clause of them (eq)
    \* SpecCommute: two sets of one hypertable ingesting twin clauses
    c_ht,           \* the hypertable's dimensions
    c_left,         \* the set that ingests each clause as it is written
    c_right,        \* the set that ingests it with the column moved to the left
    c_last,         \* the most recent clause and its twin
    c_n             \* clauses ingested so far

hriVars == <<pc, ht, hri, ret, last, sat, n_clauses, n_reported>>

orderVars == <<o_dri, o_hist>>

jobVars == <<job, job_stat, j_now, j_last, j_running, j_started, j_crashes_at_start, j_since_end,
             j_arg, j_set, j_streak, j_mark>>

backoffVars == <<b_args, b_result>>

accVars == <<a_dri, a_nbr, a_last, a_n, a_sat>>

commuteVars == <<c_ht, c_left, c_right, c_last, c_n>>

queryVars == <<q_args, q_result>>

moreVars == <<backoffVars, queryVars, accVars, commuteVars>>

vars == <<hriVars, orderVars, jobVars, moreVars>>

NoRet == [oids |-> {}, called |-> FALSE, args |-> <<>>]

\* The most recent call: op; for an add, dim is the accumulator that
\* dimension_restrict_info_add was called on (0: none), prior that accumulator's
\* state before the call, added the bool the call returned, contra whether the
\* clause was a contradictory equality on a closed dimension, rejected whether
\* the Clause Classifier's rules reject the clause.
Last(op, dim, prior, added, contra, rejected) ==
    [op |-> op, dim |-> dim, prior |-> prior, added |-> added, contra |-> contra,
     rejected |-> rejected]

ExplicitEmpty(dri) == dri.strategy = BTEqualStrategyNumber /\ dri.partitions = NIL

PriorState(dri) ==
    IF dri.dimension.type = "OPEN" THEN "open"
    ELSE IF dri.strategy = InvalidStrategy THEN "unset"
    ELSE IF dri.partitions = NIL THEN "empty" ELSE "set"

OrderIdle == o_dri = dimension_restrict_info_closed_create(Dimension(1, "CLOSED")) /\ o_hist = <<>>

\* -infinity, the timestamp that stands for "not set"; every real timestamp of
\* the model is 0 or later.
DT_NOBEGIN == -1

NoRow == [job_id |-> 0]

NoJob == [schedule_interval |-> 0, retry_period |-> 0]

JLast(op, error) == [op |-> op, error |-> error]

JOB_SUCCESS == "JOB_SUCCESS"

JOB_FAILURE == "JOB_FAILURE"

\* A mark_start or mark_end call and the result it was handed; a mark_start is
\* handed none.
JMark(op, result) == [op |-> op, result |-> result]

JobIdle ==
    /\ job = NoJob /\ job_stat = NoRow /\ j_now = 0 /\ j_last = JLast("none", FALSE)
    /\ j_running = FALSE /\ j_started = 0 /\ j_crashes_at_start = 0 /\ j_since_end = 0
    /\ j_arg = DT_NOBEGIN /\ j_set = DT_NOBEGIN /\ j_streak = 0
    /\ j_mark = JMark("none", "none")

NoArgs == [last_finish |-> 0, consecutive_failures |-> 0,
           schedule_interval |-> 0, retry_period |-> 0]

NoResult == [done |-> FALSE, next_start |-> 0]

BackoffIdle == b_args = NoArgs /\ b_result = NoResult

NoQuery == [jobstat |-> NoRow, job |-> NoJob, now |-> 0]

QueryIdle == q_args = NoQuery /\ q_result = NoResult

\* no accumulator
NoAcc == [dimension |-> [type |-> "NONE", column_attno |-> 0, id |-> 0]]

\* The most recent call on the accumulator of SpecAcc: op is "add" or "slices",
\* prior the accumulator before the call, strategy and dimValues the arguments
\* of an add, added the bool it returned, error whether the call ended in
\* elog(ERROR), slices the DimensionVec a Slice Resolver call returned.
ALast(op, prior, strategy, dimValues, added, error, slices) ==
    [op |-> op, prior |-> prior, strategy |-> strategy, dimValues |-> dimValues,
     added |-> added, error |-> error, slices |-> slices]

NoCall == ALast("none", NoAcc, InvalidStrategy, dimension_values_create(NIL, FALSE),
                FALSE, FALSE, <<>>)

ASat(all, eq) == [all |-> all, eq |-> eq]

AccIdle ==
    /\ a_dri = NoAcc /\ a_nbr = 0 /\ a_last = NoCall /\ a_n = 0
    /\ a_sat = ASat({}, {})

NoClause == Clause("none", <<>>, "=", FALSE)

CLast(e, twin) == [e |-> e, twin |-> twin]

CommuteIdle ==
    /\ c_ht = <<>> /\ c_left = NoHri /\ c_right = NoHri
    /\ c_last = CLast(NoClause, NoClause) /\ c_n = 0

MoreIdle == BackoffIdle /\ QueryIdle /\ AccIdle /\ CommuteIdle

Init ==
    /\ pc = "start"
    /\ ht \in {Hypertable(types) : types \in DimConfigs}
    /\ hri = NoHri
    /\ ret = NoRet
    /\ last = Last("none", 0, "none", FALSE, FALSE, FALSE)
    /\ sat = [i \in 1..Len(ht) |-> Vals]
    /\ n_clauses = 0
    /\ n_reported = 0
    /\ OrderIdle
    /\ JobIdle
    /\ MoreIdle

\* hypertable_restrict_info_create(rel, ht)
Create ==
    /\ pc = "start"
    /\ LET res == hypertable_restrict_info_create(ht)
       IN IF \E i \in 1..Len(ht) : res.dimension_restriction[i] = ElogError
          THEN pc' = "error" /\ hri' = hri
          ELSE pc' = "built" /\ hri' = res
    /\ last' = Last("create", 0, "none", FALSE, FALSE, FALSE)
    /\ UNCHANGED <<ht, ret, sat, n_clauses, n_reported, orderVars, jobVars, moreVars>>

\* The literal of a comparison clause and the values its add is handed.
ClauseValues(e) ==
    LET lit == IF e.args[1].node = "Var" THEN e.args[2].value ELSE e.args[1].value
    IN IF e.tag = "OpExpr" THEN {lit[1]} ELSE Range(lit) \ {NullElem}

\* The clause asks one row's column to equal values of several partitions.
Contradictory(e) ==
    /\ ~(e.tag = "ScalarArrayOpExpr" /\ e.useOr)
    /\ Cardinality({partitioning_func_apply(v) : v \in ClauseValues(e)}) > 1

\* The rejection rules of the Clause Classifier (4.1 of the specification), read
\* off the clause alone.
ClassifierRejects(dims, e) ==
    \/ e.opno = "=~" \/ \E i \in DOMAIN e.args : e.args[i].node = "VolatileExpr"
    \/ e.tag \notin {"OpExpr", "ScalarArrayOpExpr"}
    \/ Len(e.args) # 2
    \/ \A i \in DOMAIN e.args : e.args[i].node # "Var"
    \/ LET col == IF e.args[1].node = "Var" THEN 1 ELSE 2
           op == IF col = 1 THEN e.opno
                 ELSE CASE e.opno = "<" -> ">" [] e.opno = "<=" -> ">="
                        [] e.opno = ">=" -> "<=" [] e.opno = ">" -> "<"
                        [] e.opno = "<<" -> InvalidOid [] OTHER -> e.opno
       IN \/ \A i \in DOMAIN dims : dims[i].column_attno # e.args[col].varattno
          \/ e.args[3 - col].node \notin {"Const", "ImmutableExpr"}
          \/ op \in {"=?", "<>", InvalidOid}

\* hypertable_restrict_info_add_restrict_info(hri, root, ri), once per clause of
\* the list hypertable_restrict_info_add walks
AddRestrictInfo(e) ==
    /\ pc = "built"
    /\ n_clauses < MaxClauses
    /\ \E r \in {hypertable_restrict_info_add_restrict_info(hri, e)} :
          /\ hri' = r.hri
          /\ n_reported' = IF r.dim # 0 /\ r.added THEN n_reported + 1 ELSE n_reported
          /\ sat' = IF r.dim = 0 THEN sat
                    ELSE [sat EXCEPT ![r.dim] = {x \in @ : ClauseTrue(e, x)}]
          /\ last' = Last("add", r.dim,
                          IF r.dim = 0 THEN "none"
                          ELSE PriorState(hri.dimension_restriction[r.dim]),
                          r.added,
                          /\ r.dim # 0
                          /\ ht[r.dim].type = "CLOSED"
                          /\ r.strategy = BTEqualStrategyNumber
                          /\ Contradictory(e),
                          ClassifierRejects(ht, e))
    /\ n_clauses' = n_clauses + 1
    /\ ret' = NoRet
    /\ UNCHANGED <<pc, ht, orderVars, jobVars, moreVars>>

\* hypertable_restrict_info_get_chunk_oids(hri, ht, lockmode)
GetChunkOids ==
    /\ pc = "built"
    /\ ret' = hypertable_restrict_info_get_chunk_oids(hri, ht)
    /\ last' = Last("get_chunk_oids", 0, "none", FALSE, FALSE, FALSE)
    /\ UNCHANGED <<pc, ht, hri, sat, n_clauses, n_reported, orderVars, jobVars, moreVars>>

Next ==
    \/ Create
    \/ \E e \in Clauses : AddRestrictInfo(e)
    \/ GetChunkOids

Spec == Init /\ [][Next]_vars


(***************************************************************************)
(* Properties of Spec.                                                     *)
(***************************************************************************)
Dims == 1..Len(ht)

Dri(i) == hri.dimension_restriction[i]

SlicesOf(i) == dimension_restrict_info_slices(Dri(i))

\* Where a row with column value x lies in dimension d: its internal time value
\* (open) or its partition (closed).
RowPosition(d, x) ==
    IF d.type = "OPEN" THEN time_value_to_internal(x) ELSE partitioning_func_apply(x)

InSlice(s, p) == s.range_start <= p /\ p < s.range_end

\* Chunk c can hold a row that satisfies every clause handed to an add.
HoldsSatisfyingRow(c) ==
    \A i \in Dims : \E x \in sat[i] : InSlice(c[i], RowPosition(ht[i], x))

\* The accumulators never hold a bound without its strategy, nor a strategy
\* without a bound that was assigned.
BoundsInitialised ==
    pc = "built" =>
        \A i \in Dims : ht[i].type = "OPEN" =>
            /\ Dri(i).upper_strategy = InvalidStrategy <=> Dri(i).upper_bound = Indeterminate
            /\ Dri(i).lower_strategy = InvalidStrategy <=> Dri(i).lower_bound = Indeterminate

\* C1 (soundness): get_chunk_oids returns every chunk that can hold a row
\* satisfying all the clauses ingested.
C1_Soundness ==
    last.op = "get_chunk_oids" =>
        \A c \in Chunks(ht) : HoldsSatisfyingRow(c) => c \in ret.oids

\* C2 (range monotonicity): no step raises an upper bound that is set or lowers
\* a lower bound that is set, on any open dimension.
C2_RangeMonotonicity ==
    [][\A i \in Dims : (pc = "built" /\ ht[i].type = "OPEN") =>
          LET a == hri.dimension_restriction[i]
              b == hri'.dimension_restriction[i]
          IN /\ a.upper_strategy # InvalidStrategy =>
                    b.upper_strategy # InvalidStrategy /\ b.upper_bound <= a.upper_bound
             /\ a.lower_strategy # InvalidStrategy =>
                    b.lower_strategy # InvalidStrategy /\ b.lower_bound >= a.lower_bound]_vars

\* C4 (contradiction propagation): an explicit-empty closed accumulator is
\* explicit-empty after every step, and its Slice Resolver returns no slice.
C4_ContradictionPropagation ==
    [][\A i \in Dims :
          (pc = "built" /\ ht[i].type = "CLOSED"
              /\ ExplicitEmpty(hri.dimension_restriction[i])) =>
                /\ ExplicitEmpty(hri'.dimension_restriction[i])
                /\ dimension_restrict_info_slices(hri'.dimension_restriction[i]) = <<>>]_vars

\* a further add, with an ordering strategy, was called on an explicit-empty
\* accumulator
C4_Witness ==
    /\ last.op = "add" /\ last.dim # 0 /\ last.prior = "empty"
    /\ ExplicitEmpty(Dri(last.dim))
    /\ SlicesOf(last.dim) = <<>>

\* C5 (cross-dimension short-circuit): with a dimension without candidate slice
\* get_chunk_oids returns no chunk and does not call chunk_find_all_oids; it
\* calls it when every dimension has one, with the candidate vectors of the
\* dimensions in order.
C5_ShortCircuit ==
    last.op = "get_chunk_oids" =>
        /\ (\E i \in Dims : SlicesOf(i) = <<>>) => (ret.oids = {} /\ ~ret.called)
        /\ (\A i \in Dims : SlicesOf(i) # <<>>) => ret.called
        /\ ret.called => /\ Len(ret.args) = Len(ht)
                         /\ \A i \in Dims : ret.args[i] = SlicesOf(i)

\* the second dimension has no candidate slice, the first one has some
C5_Witness ==
    /\ last.op = "get_chunk_oids" /\ Len(ht) = 2
    /\ SlicesOf(1) # <<>> /\ SlicesOf(2) = <<>>
    /\ ret.oids = {} /\ ~ret.called

\* C6 (success counter): num_base_restrictions counts the clauses for which add
\* was called and returned true, and has_restrictions tells whether there is one.
C6_SuccessCounter ==
    pc = "built" =>
        /\ hri.num_base_restrictions = n_reported
        /\ hypertable_restrict_info_has_restrictions(hri) <=> n_reported # 0

\* of two clauses one was counted
C6_Witness ==
    /\ pc = "built" /\ n_clauses = 2 /\ n_reported = 1
    /\ hypertable_restrict_info_has_restrictions(hri)

\* C7 (rejected clause): ingesting a clause that the Clause Classifier's rules
\* reject changes no accumulator and not the counter.
C7_RejectedClauseFrame ==
    [][(last'.op = "add" /\ last'.rejected) => hri' = hri]_vars

\* a clause was rejected after one had been counted
C7_Witness ==
    /\ last.op = "add" /\ last.rejected /\ last.dim = 0
    /\ n_reported = 1 /\ n_clauses = 2

\* C8 (no usable restriction): while no add has reported a restriction every
\* accumulator is unset, every Slice Resolver returns all the slices of its
\* dimension, and get_chunk_oids returns all the chunks.
C8_NoRestrictionAllChunks ==
    (pc = "built" /\ n_reported = 0) =>
        /\ \A i \in Dims :
              /\ ht[i].type = "OPEN" =>
                    /\ Dri(i).lower_strategy = InvalidStrategy
                    /\ Dri(i).upper_strategy = InvalidStrategy
              /\ ht[i].type = "CLOSED" => Dri(i).strategy = InvalidStrategy
              /\ SlicesOf(i) = SortedVec(StoredSlices(ht[i]))
        /\ last.op = "get_chunk_oids" => (ret.called /\ ret.oids = Chunks(ht))

\* clauses were ingested, none was counted, and the chunks were resolved
C8_Witness ==
    /\ last.op = "get_chunk_oids" /\ n_clauses = 2 /\ n_reported = 0
    /\ Len(ht) = 2 /\ ret.oids = Chunks(ht)

\* C9 (hash contradiction rule): after a contradictory equality clause on a
\* closed dimension the accumulator is explicit-empty, the add has returned
\* true, and get_chunk_oids returns no chunk.
C9_HashContradiction ==
    (last.op = "add" /\ last.contra) =>
        /\ ExplicitEmpty(Dri(last.dim))
        /\ last.added
        /\ hypertable_restrict_info_get_chunk_oids(hri, ht).oids = {}

\* the contradiction came onto a set of partitions
C9_Witness ==
    /\ last.op = "add" /\ last.contra /\ last.prior = "set"
    /\ ExplicitEmpty(Dri(last.dim))


\* The fields of the two variants of DimensionRestrictInfo.
OpenFields == {"dimension", "lower_bound", "lower_strategy", "upper_bound", "upper_strategy"}

ClosedFields == {"dimension", "partitions", "strategy"}

\* C12 (shape invariant): once built the set holds one accumulator per
\* dimension, accumulator i is on dimension i and is of the variant of that
\* dimension's type, through every ingest and resolve call.
C12_ShapeInvariant ==
    pc = "built" =>
        /\ hri.num_dimensions = Len(ht)
        /\ DOMAIN hri.dimension_restriction = 1..Len(ht)
        /\ \A i \in Dims :
              /\ Dri(i).dimension = ht[i]
              /\ ht[i].type = "OPEN" => DOMAIN Dri(i) = OpenFields
              /\ ht[i].type = "CLOSED" => DOMAIN Dri(i) = ClosedFields

\* a closed and an open dimension, two clauses counted, the chunks resolved
C12_Witness ==
    /\ pc = "built" /\ Len(ht) = 2 /\ ht[1].type = "CLOSED" /\ ht[2].type = "OPEN"
    /\ n_reported = 2 /\ last.op = "get_chunk_oids"
    /\ DOMAIN Dri(1) = ClosedFields /\ DOMAIN Dri(2) = OpenFields

\* an accumulator base on a dimension that is neither open nor closed
UnknownKindAcc == [dimension |-> Dimension(1, "ANY")]

\* C13 (unknown dimension kind): create on a hypertable with a dimension that is
\* neither open nor closed ends in an error, leaves no set, no counted
\* restriction and no chunk list; add and the Slice Resolver on such a dimension
\* end in an error as well.
C13_UnknownKindError ==
    /\ (pc # "start" /\ \E i \in Dims : ht[i].type \notin {"OPEN", "CLOSED"}) =>
          /\ pc = "error"
          /\ hri = NoHri
          /\ n_clauses = 0 /\ n_reported = 0
          /\ ret = NoRet
    /\ dimension_restrict_info_create(UnknownKindAcc.dimension) = ElogError
    /\ \A strategy \in Strategies, values \in SeqsUpTo(Vals, MaxArrayLen), use_or \in BOOLEAN :
          dimension_restrict_info_add(UnknownKindAcc, strategy,
                                      dimension_values_create(values, use_or))
              = Ret(ElogError, FALSE)
    /\ dimension_restrict_info_slices(UnknownKindAcc) = <<ElogError>>

\* create was called on a hypertable whose second dimension is of another type
C13_Witness ==
    /\ pc = "error" /\ last.op = "create"
    /\ Len(ht) = 2 /\ ht[1].type = "OPEN" /\ ht[2].type = "ANY"
    /\ hri = NoHri

(***************************************************************************)
(* SpecOrder: equality clauses on one closed-dimension accumulator.        *)
(***************************************************************************)
HriIdle ==
    /\ pc = "idle" /\ ht = <<>> /\ hri = NoHri /\ ret = NoRet
    /\ last = Last("none", 0, "none", FALSE, FALSE, FALSE)
    /\ sat = <<>> /\ n_clauses = 0 /\ n_reported = 0

\* The DimensionValues of an equality clause: one value (column = literal), or
\* the non-null elements of the array of an ANY (use_or) or ALL clause.
EqualityValues ==
    {dimension_values_create(values, use_or) :
        values \in SeqsUpTo(Vals, MaxArrayLen), use_or \in BOOLEAN}

InitOrder ==
    /\ HriIdle
    /\ JobIdle
    /\ MoreIdle
    /\ o_dri = dimension_restrict_info_closed_create(Dimension(1, "CLOSED"))
    /\ o_hist = <<>>

\* dimension_restrict_info_closed_add(dri, BTEqualStrategyNumber, dimValues)
OrderAdd(dimValues) ==
    /\ Len(o_hist) < MaxOrderLen
    /\ o_dri' = dimension_restrict_info_closed_add(o_dri, BTEqualStrategyNumber, dimValues).dri
    /\ o_hist' = Append(o_hist, dimValues)
    /\ UNCHANGED <<hriVars, jobVars, moreVars>>

NextOrder == \E dimValues \in EqualityValues : OrderAdd(dimValues)

SpecOrder == InitOrder /\ [][NextOrder]_vars

\* The accumulator after the adds of a list of DimensionValues, in order.
RECURSIVE ClosedAddAll(_, _)
ClosedAddAll(dri, clauses) ==
    IF clauses = <<>> THEN dri
    ELSE ClosedAddAll(
             dimension_restrict_info_closed_add(dri, BTEqualStrategyNumber, Head(clauses)).dri,
             Tail(clauses))

\* The state of a closed accumulator as a set: unset, a set of partitions, or
\* explicit-empty.
AsSet(dri) == [strategy |-> dri.strategy, partitions |-> Range(dri.partitions)]

\* C3 (hash order independence): the clauses added so far, added in any other
\* order to a fresh accumulator, leave the same state as a set.
C3_OrderIndependence ==
    \A p \in Permutations(1..Len(o_hist)) :
        AsSet(ClosedAddAll(dimension_restrict_info_closed_create(Dimension(1, "CLOSED")),
                           [i \in 1..Len(o_hist) |-> o_hist[p[i]]]))
            = AsSet(o_dri)

\* three different clauses, one an ANY of two partitions, that leave a partition
C3_Witness ==
    /\ Len(o_hist) = 3
    /\ o_hist[1] # o_hist[2] /\ o_hist[1] # o_hist[3] /\ o_hist[2] # o_hist[3]
    /\ \E i \in 1..3 : o_hist[i].use_or /\ Len(o_hist[i].values) = 2
    /\ o_dri.strategy = BTEqualStrategyNumber /\ o_dri.partitions # NIL

(***************************************************************************)
(* SpecJob: the statistics row of one background job (bgw/job_stat.c).     *)
(* Timestamps and intervals are integers in one unit; the clock never      *)
(* runs backwards.                                                         *)
(***************************************************************************)
MAX_INTERVALS_BACKOFF == 5

JobId == 1

Intervals == 0..MaxInterval

JobConfigs ==
    {[schedule_interval |-> s, retry_period |-> r] : s \in Intervals, r \in Intervals}

bgw_job_stat_next_start_was_set(fd) == fd.next_start # DT_NOBEGIN

\* timestamptz_pl_interval: an infinite timestamp stays as it is
timestamptz_pl_interval(ts, ival) == IF ts = DT_NOBEGIN THEN ts ELSE ts + ival

interval_mul(ival, factor) == ival * factor

\* the row the first start of a job inserts
bgw_job_stat_insert_mark_start_relation(bgw_job_id, now) ==
    [job_id |-> bgw_job_id,
     last_start |-> now,
     last_finish |-> DT_NOBEGIN,
     next_start |-> DT_NOBEGIN,
     total_runs |-> 1,
     total_duration |-> 0,
     total_success |-> 0,
     total_failures |-> 0,
     consecutive_failures |-> 0,
     last_run_success |-> FALSE,
     total_crashes |-> 1,
     consecutive_crashes |-> 1]

\* (mutant) the start mark that leaves last_run_success as the last run set it
tuple_mark_start_keeps_success(fd, now) ==
    [fd EXCEPT !.last_start = now,
               !.last_finish = DT_NOBEGIN,
               !.next_start = DT_NOBEGIN,
               !.total_runs = @ + 1,
               !.total_crashes = @ + 1,
               !.consecutive_crashes = @ + 1]

bgw_job_stat_tuple_mark_start(fd, now) ==
    [fd EXCEPT !.last_start = now,
               !.last_finish = DT_NOBEGIN,
               !.next_start = DT_NOBEGIN,
               !.total_runs = @ + 1,
               !.last_run_success = FALSE,
               !.total_crashes = @ + 1,
               !.consecutive_crashes = @ + 1]

calculate_next_start_on_success(last_finish, j) ==
    timestamptz_pl_interval(last_finish, j.schedule_interval)

\* The values 1 << n can take in a 32-bit int. The shift is defined for n in
\* 0..30; for any other n it is undefined, and a build gives the shift of the
\* count taken modulo 32 (the sign bit for a count of 31) or 0.
INT_MIN == -2147483647 - 1

ShiftLeftOne(n) ==
    IF n \in 0..30 THEN {2 ^ n}
    ELSE IF n % 32 = 31 THEN {INT_MIN, 0}
    ELSE {2 ^ (n % 32), 0}

\* multiplier is the value of 1 << (consecutive_failures - 1)
calculate_next_start_on_failure(last_finish, multiplier, j) ==
    LET ival == interval_mul(j.retry_period, multiplier)
        ival_max == interval_mul(j.schedule_interval, MAX_INTERVALS_BACKOFF)
    IN  timestamptz_pl_interval(last_finish, IF ival > ival_max THEN ival_max ELSE ival)

\* the end mark that computes next_start whether or not one was set
tuple_mark_end_overwrites_next_start(fd, result, j, now, multiplier) ==
    LET ended == [fd EXCEPT !.last_finish = now,
                            !.total_duration = @ + (now - fd.last_start),
                            !.last_run_success = (result = JOB_SUCCESS),
                            !.total_crashes = @ - 1,
                            !.consecutive_crashes = 0]
    IN  IF result = JOB_SUCCESS
        THEN [ended EXCEPT
                 !.total_success = @ + 1,
                 !.consecutive_failures = 0,
                 !.next_start = calculate_next_start_on_success(ended.last_finish, j)]
        ELSE [ended EXCEPT
                 !.total_failures = @ + 1,
                 !.consecutive_failures = @ + 1,
                 !.next_start = calculate_next_start_on_failure(ended.last_finish, multiplier, j)]

\* the end mark with total_crashes left as the start mark made it
tuple_mark_end_keeps_crash(fd, result, j, now, multiplier) ==
    LET ended == [fd EXCEPT !.last_finish = now,
                            !.total_duration = @ + (now - fd.last_start),
                            !.last_run_success = (result = JOB_SUCCESS),
                            !.consecutive_crashes = 0]
    IN  IF result = JOB_SUCCESS
        THEN [ended EXCEPT
                 !.total_success = @ + 1,
                 !.consecutive_failures = 0,
                 !.next_start = IF ~bgw_job_stat_next_start_was_set(ended)
                                THEN calculate_next_start_on_success(ended.last_finish, j)
                                ELSE @]
        ELSE [ended EXCEPT
                 !.total_failures = @ + 1,
                 !.consecutive_failures = @ + 1,
                 !.next_start = IF ~bgw_job_stat_next_start_was_set(ended)
                                THEN calculate_next_start_on_failure(ended.last_finish, multiplier, j)
                                ELSE @]

bgw_job_stat_tuple_mark_end(fd, result, j, now, multiplier) ==
    LET ended == [fd EXCEPT !.last_finish = now,
                            !.total_duration = @ + (now - fd.last_start),
                            !.last_run_success = (result = JOB_SUCCESS),
                            !.total_crashes = @ - 1,
                            !.consecutive_crashes = 0]
    IN  IF result = JOB_SUCCESS
        THEN [ended EXCEPT
                 !.total_success = @ + 1,
                 !.consecutive_failures = 0,
                 !.next_start = IF ~bgw_job_stat_next_start_was_set(ended)
                                THEN calculate_next_start_on_success(ended.last_finish, j)
                                ELSE @]
        ELSE [ended EXCEPT
                 !.total_failures = @ + 1,
                 !.consecutive_failures = @ + 1,
                 !.next_start = IF ~bgw_job_stat_next_start_was_set(ended)
                                THEN calculate_next_start_on_failure(ended.last_finish, multiplier, j)
                                ELSE @]

bgw_job_stat_tuple_set_next_start(fd, next_start) == [fd EXCEPT !.next_start = next_start]

\* update the job's row, or insert it when the scan finds none
bgw_job_stat_mark_start(stat, bgw_job_id, now) ==
    IF stat # NoRow
    THEN bgw_job_stat_tuple_mark_start(stat, now)
    ELSE bgw_job_stat_insert_mark_start_relation(bgw_job_id, now)

\* an error leaves the row as it was
bgw_job_stat_mark_end(stat, j, result, now, multiplier) ==
    IF stat # NoRow
    THEN [stat |-> bgw_job_stat_tuple_mark_end(stat, result, j, now, multiplier), error |-> FALSE]
    ELSE [stat |-> stat, error |-> TRUE]

bgw_job_stat_set_next_start(stat, next_start) ==
    IF next_start = DT_NOBEGIN THEN [stat |-> stat, error |-> TRUE]
    ELSE IF stat # NoRow
    THEN [stat |-> bgw_job_stat_tuple_set_next_start(stat, next_start), error |-> FALSE]
    ELSE [stat |-> stat, error |-> TRUE]

\* The model counts time in units of the minimum wait after a crash.
MIN_WAIT_AFTER_CRASH_MS == 5 * 60 * 1000

MsPerTimeUnit == MIN_WAIT_AFTER_CRASH_MS

TimestampTzPlusMilliseconds(tz, ms) == tz + (ms \div MsPerTimeUnit)

\* now is timer_get_current_timestamp(), multiplier the value of
\* 1 << (consecutive_crashes - 1) in calculate_next_start_on_failure
calculate_next_start_on_crash(now, multiplier, j) ==
    LET failure_calc == calculate_next_start_on_failure(now, multiplier, j)
        min_time == TimestampTzPlusMilliseconds(now, MIN_WAIT_AFTER_CRASH_MS)
    IN  IF min_time > failure_calc THEN min_time ELSE failure_calc

\* jobstat is NoRow for the NULL of a job that has no row
bgw_job_stat_next_start(jobstat, j, now, multiplier) ==
    IF jobstat = NoRow THEN DT_NOBEGIN
    ELSE IF jobstat.consecutive_crashes > 0
    THEN calculate_next_start_on_crash(now, multiplier, j)
    ELSE jobstat.next_start

InitJob ==
    /\ HriIdle
    /\ OrderIdle
    /\ MoreIdle
    /\ job \in JobConfigs
    /\ job_stat = NoRow
    /\ j_now = 0
    /\ j_last = JLast("none", FALSE)
    /\ j_running = FALSE
    /\ j_started = 0
    /\ j_crashes_at_start = 0
    /\ j_since_end = 0
    /\ j_arg = DT_NOBEGIN
    /\ j_set = DT_NOBEGIN
    /\ j_streak = 0
    /\ j_mark = JMark("none", "none")

\* the clock readings a call can see
Readings == {t \in j_now..(j_now + 1) : t <= MaxTime}

\* The scheduler marks the start of a run. A run still marked as started is
\* one whose end was never marked.
MarkStart(now) ==
    /\ j_started < MaxRuns
    /\ job_stat' = bgw_job_stat_mark_start(job_stat, JobId, now)
    /\ j_now' = now
    /\ j_last' = JLast("mark_start", FALSE)
    /\ j_running' = TRUE
    /\ j_started' = j_started + 1
    /\ j_crashes_at_start' = IF job_stat = NoRow THEN 0 ELSE job_stat.total_crashes
    /\ j_since_end' = j_since_end + 1
    /\ j_set' = DT_NOBEGIN
    /\ j_mark' = JMark("mark_start", "none")
    /\ UNCHANGED <<job, j_arg, j_streak, hriVars, orderVars, moreVars>>

\* The run that was started marks its end.
MarkEnd(result, now) ==
    /\ j_running
    /\ \E multiplier \in (IF result = JOB_SUCCESS THEN {1}
                          ELSE ShiftLeftOne(job_stat.consecutive_failures + 1 - 1)) :
       \E r \in {bgw_job_stat_mark_end(job_stat, job, result, now, multiplier)} :
          /\ job_stat' = r.stat
          /\ j_last' = JLast("mark_end", r.error)
    /\ j_now' = now
    /\ j_running' = FALSE
    /\ j_since_end' = 0
    /\ j_streak' = IF result = JOB_SUCCESS THEN 0 ELSE j_streak + 1
    /\ j_mark' = JMark("mark_end", result)
    /\ UNCHANGED <<job, j_started, j_crashes_at_start, j_arg, j_set, hriVars, orderVars,
                   moreVars>>

NextStartInputs == {DT_NOBEGIN} \cup 0..MaxTime

SetNextStart(next_start) ==
    /\ \E r \in {bgw_job_stat_set_next_start(job_stat, next_start)} :
          /\ job_stat' = r.stat
          /\ j_last' = JLast("set_next_start", r.error)
          /\ j_set' = IF r.error THEN j_set ELSE next_start
    /\ j_arg' = next_start
    /\ UNCHANGED <<job, j_now, j_running, j_started, j_crashes_at_start, j_since_end,
                   j_streak, j_mark, hriVars, orderVars, moreVars>>

NextJob ==
    \/ \E now \in Readings : MarkStart(now)
    \/ \E result \in {JOB_SUCCESS, JOB_FAILURE}, now \in Readings : MarkEnd(result, now)
    \/ \E next_start \in NextStartInputs : SetNextStart(next_start)

SpecJob == InitJob /\ [][NextJob]_vars

\* C10 (crash accounting): consecutive_crashes is the number of mark_start
\* calls since the most recent mark_end, so 0 once a run has ended; total_crashes
\* is what it was before the most recent start once that run has ended, and one
\* more than that while the run is started and not ended.
C10_CrashAccounting ==
    job_stat # NoRow =>
        /\ job_stat.consecutive_crashes = j_since_end
        /\ job_stat.total_crashes = j_crashes_at_start + (IF j_running THEN 1 ELSE 0)
        /\ ~j_running => job_stat.consecutive_crashes = 0

\* a run that was never ended, a run that ended, and a third run under way
C10_Witness ==
    /\ job_stat # NoRow
    /\ j_running
    /\ j_started = 3
    /\ job_stat.total_success + job_stat.total_failures = 1
    /\ job_stat.total_crashes = 2
    /\ job_stat.consecutive_crashes = 1

(***************************************************************************)
(* SpecBackoff: calculate_next_start_on_failure as a function of its       *)
(* arguments, consecutive_failures being an int of 32 bits.                *)
(***************************************************************************)
BackoffArgs ==
    {[last_finish |-> t, consecutive_failures |-> cf,
      schedule_interval |-> s, retry_period |-> r] :
        t \in 0..MaxTime, cf \in 1..MaxFailures, s \in Intervals, r \in Intervals}

InitBackoff ==
    /\ HriIdle
    /\ OrderIdle
    /\ JobIdle
    /\ QueryIdle
    /\ AccIdle
    /\ CommuteIdle
    /\ b_args \in BackoffArgs
    /\ b_result = NoResult

\* calculate_next_start_on_failure(last_finish, consecutive_failures, job)
CalculateNextStartOnFailure ==
    /\ ~b_result.done
    /\ \E multiplier \in ShiftLeftOne(b_args.consecutive_failures - 1) :
          b_result' = [done |-> TRUE,
                       next_start |-> calculate_next_start_on_failure(
                                          b_args.last_finish, multiplier, b_args)]
    /\ UNCHANGED <<b_args, hriVars, orderVars, jobVars, queryVars, accVars, commuteVars>>

NextBackoff == CalculateNextStartOnFailure

SpecBackoff == InitBackoff /\ [][NextBackoff]_vars

\* the row of a job whose run was marked started n times and never marked ended
RECURSIVE StartedTimes(_)
StartedTimes(n) ==
    IF n = 0 THEN NoRow ELSE bgw_job_stat_mark_start(StartedTimes(n - 1), JobId, 0)

\* The rows a call can be handed: no row, the row of a job with up to
\* MaxFailures runs that never ended, the row of a job whose one run ended;
\* each as mark_start or mark_end left it or with a next_start set since.
QueryRows ==
    LET left == {StartedTimes(n) : n \in 1..MaxFailures}
                \cup {bgw_job_stat_mark_end(StartedTimes(1), j, result, 0, 1).stat :
                         j \in JobConfigs, result \in {JOB_SUCCESS, JOB_FAILURE}}
    IN  {NoRow} \cup left
        \cup {bgw_job_stat_set_next_start(fd, t).stat : fd \in left, t \in 0..MaxTime}

InitNextStart ==
    /\ HriIdle
    /\ OrderIdle
    /\ JobIdle
    /\ BackoffIdle
    /\ AccIdle
    /\ CommuteIdle
    /\ q_args \in {[jobstat |-> fd, job |-> j, now |-> t] :
                      fd \in QueryRows, j \in JobConfigs, t \in 0..MaxTime}
    /\ q_result = NoResult

\* bgw_job_stat_next_start(jobstat, job)
BgwJobStatNextStart ==
    /\ ~q_result.done
    /\ \E multiplier \in (IF q_args.jobstat # NoRow /\ q_args.jobstat.consecutive_crashes > 0
                          THEN ShiftLeftOne(q_args.jobstat.consecutive_crashes - 1)
                          ELSE {1}) :
          q_result' = [done |-> TRUE,
                       next_start |-> bgw_job_stat_next_start(
                                          q_args.jobstat, q_args.job, q_args.now, multiplier)]
    /\ UNCHANGED <<q_args, hriVars, orderVars, jobVars, backoffVars, accVars, commuteVars>>

NextNextStart == BgwJobStatNextStart

SpecNextStart == InitNextStart /\ [][NextNextStart]_vars

Min(a, b) == IF a <= b THEN a ELSE b

\* min(retry_period * 2^(consecutive_failures - 1), 5 * schedule_interval); from
\* 2^30 on the power is above every ceiling of the model unless retry_period is 0.
BackoffWait(a) ==
    IF a.retry_period = 0 THEN 0
    ELSE IF a.consecutive_failures - 1 >= 30 THEN MAX_INTERVALS_BACKOFF * a.schedule_interval
    ELSE Min(a.retry_period * 2 ^ (a.consecutive_failures - 1),
             MAX_INTERVALS_BACKOFF * a.schedule_interval)

\* C11 (failure backoff with ceiling): calculate_next_start_on_failure returns
\* last_finish + min(retry_period * 2^(consecutive_failures - 1),
\* 5 * schedule_interval) for every consecutive_failures >= 1.
C11_FailureBackoff ==
    b_result.done => b_result.next_start = b_args.last_finish + BackoffWait(b_args)

(***************************************************************************)
(* SpecAcc: one accumulator, open or closed, under any adds and Slice      *)
(* Resolver calls, with the counter of the set that holds it.              *)
(***************************************************************************)
\* The DimensionValues an add is handed: the values of one literal or of the
\* non-null elements of an array, and the useOr of the clause.
AddValues ==
    {dimension_values_create(values, use_or) :
        values \in SeqsUpTo(Vals, MaxArrayLen), use_or \in BOOLEAN}

InitAcc ==
    /\ HriIdle
    /\ OrderIdle
    /\ JobIdle
    /\ BackoffIdle
    /\ QueryIdle
    /\ CommuteIdle
    /\ a_dri \in {dimension_restrict_info_create(Dimension(1, type)) :
                     type \in {"OPEN", "CLOSED"}}
    /\ a_nbr = 0
    /\ a_last = NoCall
    /\ a_n = 0
    /\ a_sat = ASat(Vals, Vals)

\* A row whose column is x satisfies the clause "column op ANY/ALL (values)",
\* op being the operator of the strategy; a clause of one value is either.
ValuesHold(strategy, dimValues, x) ==
    IF dimValues.use_or
    THEN \E k \in DOMAIN dimValues.values : StrategyHolds(strategy, x, dimValues.values[k])
    ELSE \A k \in DOMAIN dimValues.values : StrategyHolds(strategy, x, dimValues.values[k])

\* dimension_restrict_info_add(dri, strategy, values) and the statement of
\* hypertable_restrict_info_add_restrict_info that counts its result
AccAdd(strategy, dimValues) ==
    /\ a_n < MaxAdds
    /\ \E r \in {dimension_restrict_info_add(a_dri, strategy, dimValues)} :
          /\ a_dri' = r.dri
          /\ a_nbr' = count_restriction([num_base_restrictions |-> a_nbr],
                                        r.added).num_base_restrictions
          /\ a_last' = ALast("add", a_dri, strategy, dimValues, r.added, FALSE, <<>>)
    /\ a_n' = a_n + 1
    /\ a_sat' = ASat({x \in a_sat.all : ValuesHold(strategy, dimValues, x)},
                     IF strategy = BTEqualStrategyNumber
                     THEN {x \in a_sat.eq : ValuesHold(strategy, dimValues, x)}
                     ELSE a_sat.eq)
    /\ UNCHANGED <<hriVars, orderVars, jobVars, backoffVars, queryVars, commuteVars>>

\* dimension_restrict_info_slices(dri)
AccSlices ==
    /\ a_last' = ALast("slices", a_dri, InvalidStrategy, dimension_values_create(NIL, FALSE),
                       FALSE, FALSE, dimension_restrict_info_slices(a_dri))
    /\ UNCHANGED <<a_dri, a_nbr, a_n, a_sat, hriVars, orderVars, jobVars, backoffVars, queryVars, commuteVars>>

NextAcc ==
    \/ \E strategy \in Strategies, dimValues \in AddValues : AccAdd(strategy, dimValues)
    \/ AccSlices

SpecAcc == InitAcc /\ [][NextAcc]_vars

IsOpen(dri) == dri.dimension.type = "OPEN"

IsClosed(dri) == dri.dimension.type = "CLOSED"

\* the most recent call was an add of one value on an open accumulator
OpenAddOne ==
    a_last.op = "add" /\ IsOpen(a_last.prior) /\ Len(a_last.dimValues.values) = 1

\* that value in the internal time representation
AddedValue == time_value_to_internal(a_last.dimValues.values[1])

\* C14 (range tightening rule): an add of < or <= with value v replaces the
\* upper bound and its strategy exactly when the upper bound is unset or v is
\* strictly smaller, > and >= likewise the lower bound with strictly greater,
\* and the add returns true exactly when it replaced a bound.
C14_RangeTightening ==
    OpenAddOne =>
        LET p == a_last.prior
            v == AddedValue
            s == a_last.strategy
        IN /\ s \in {BTLessStrategyNumber, BTLessEqualStrategyNumber} =>
                 IF p.upper_strategy = InvalidStrategy \/ v < p.upper_bound
                 THEN /\ a_dri = [p EXCEPT !.upper_bound = v, !.upper_strategy = s]
                      /\ a_last.added
                 ELSE a_dri = p /\ ~a_last.added
           /\ s \in {BTGreaterStrategyNumber, BTGreaterEqualStrategyNumber} =>
                 IF p.lower_strategy = InvalidStrategy \/ v > p.lower_bound
                 THEN /\ a_dri = [p EXCEPT !.lower_bound = v, !.lower_strategy = s]
                      /\ a_last.added
                 ELSE a_dri = p /\ ~a_last.added

\* time >= 1 then time < 2 on a fresh accumulator, then the same upper value
\* again with <=, which is not taken
C14_Witness ==
    /\ OpenAddOne /\ a_n = 3
    /\ a_last.strategy = BTLessEqualStrategyNumber /\ ~a_last.added
    /\ AddedValue = a_dri.upper_bound
    /\ a_dri.lower_strategy = BTGreaterEqualStrategyNumber
    /\ a_dri.lower_bound = time_value_to_internal(1)
    /\ a_dri.upper_strategy = BTLessStrategyNumber
    /\ a_dri.upper_bound = time_value_to_internal(2)

\* C15 (range equality): an add of = with one value v sets both bounds to v,
\* the lower strategy to >= and the upper strategy to <=, whatever the bounds
\* were, and returns true.
C15_RangeEquality ==
    (OpenAddOne /\ a_last.strategy = BTEqualStrategyNumber) =>
        /\ a_dri = [a_last.prior EXCEPT
                       !.lower_bound = AddedValue,
                       !.upper_bound = AddedValue,
                       !.lower_strategy = BTGreaterEqualStrategyNumber,
                       !.upper_strategy = BTLessEqualStrategyNumber]
        /\ a_last.added

\* the equality came onto bounds that both exclude its value
C15_Witness ==
    /\ OpenAddOne /\ a_last.strategy = BTEqualStrategyNumber
    /\ a_last.prior.upper_strategy = BTLessStrategyNumber
    /\ a_last.prior.lower_strategy = BTGreaterStrategyNumber
    /\ a_last.prior.upper_bound < AddedValue
    /\ a_dri.lower_bound = AddedValue /\ a_dri.upper_bound = AddedValue

\* C16 (range disjunction guard): an open-dimension add with use_or and more
\* than one value returns false and changes neither the accumulator nor the
\* counter, for every strategy; with use_or and one value it does what the add
\* of that value without use_or does.
C16_RangeDisjunctionGuard ==
    [][(a_last'.op = "add" /\ IsOpen(a_dri) /\ a_last'.dimValues.use_or) =>
          IF Len(a_last'.dimValues.values) > 1
          THEN ~a_last'.added /\ a_dri' = a_dri /\ a_nbr' = a_nbr
          ELSE LET plain == dimension_restrict_info_open_add(a_dri, a_last'.strategy,
                                dimension_values_create(a_last'.dimValues.values, FALSE))
               IN a_dri' = plain.dri /\ a_last'.added = plain.added]_vars

\* a counted restriction, then time < ANY of two values below the upper bound
C16_Witness ==
    /\ a_last.op = "add" /\ IsOpen(a_dri) /\ a_last.dimValues.use_or
    /\ Len(a_last.dimValues.values) = 2
    /\ a_last.strategy = BTLessStrategyNumber
    /\ a_last.prior.upper_strategy = BTLessEqualStrategyNumber
    /\ \A i \in 1..2 : time_value_to_internal(a_last.dimValues.values[i]) < a_last.prior.upper_bound
    /\ a_nbr = 1 /\ a_n = 2 /\ a_dri = a_last.prior

\* C17 (hash non-equality guard): a closed-dimension add with a strategy other
\* than equal returns false and changes neither the accumulator nor the counter.
C17_HashNonEqualityGuard ==
    [][(a_last'.op = "add" /\ IsClosed(a_dri) /\ a_last'.strategy # BTEqualStrategyNumber) =>
          ~a_last'.added /\ a_dri' = a_dri /\ a_nbr' = a_nbr]_vars

\* an ordering comparison came onto a set of partitions
C17_Witness ==
    /\ a_last.op = "add" /\ IsClosed(a_dri)
    /\ a_last.strategy = BTGreaterStrategyNumber
    /\ a_last.dimValues.values # NIL
    /\ a_last.prior.strategy = BTEqualStrategyNumber /\ a_last.prior.partitions # NIL
    /\ a_dri = a_last.prior /\ a_nbr = 1 /\ a_n = 2

\* the partition numbers of the values of the most recent add
PartitionsOfValues == {partitioning_func_apply(v) : v \in Range(a_last.dimValues.values)}

NoDuplicates(list) == Cardinality(Range(list)) = Len(list)

\* C18 (hash adopt/intersect): an equality add that is no contradiction, with N
\* the set of partitions of its values, makes an unset accumulator hold N and a
\* some-set accumulator with partitions S hold S intersect N (explicit-empty
\* when that is empty), and returns true.
C18_HashAdoptIntersect ==
    (/\ a_last.op = "add" /\ IsClosed(a_dri)
     /\ a_last.strategy = BTEqualStrategyNumber
     /\ Cardinality(PartitionsOfValues) = 1 \/ a_last.dimValues.use_or) =>
        LET p == a_last.prior
            N == PartitionsOfValues
        IN /\ p.strategy = InvalidStrategy =>
                 /\ a_dri.strategy = BTEqualStrategyNumber
                 /\ Range(a_dri.partitions) = N
                 /\ NoDuplicates(a_dri.partitions)
                 /\ a_last.added
           /\ (p.strategy = BTEqualStrategyNumber /\ p.partitions # NIL) =>
                 /\ a_dri.strategy = BTEqualStrategyNumber
                 /\ Range(a_dri.partitions) = Range(p.partitions) \cap N
                 /\ NoDuplicates(a_dri.partitions)
                 /\ (Range(p.partitions) \cap N = {} => ExplicitEmpty(a_dri))
                 /\ a_last.added

\* an IN clause of two partitions, then an equality that keeps one of them
C18_Witness ==
    /\ a_last.op = "add" /\ IsClosed(a_dri) /\ a_n = 2
    /\ a_last.strategy = BTEqualStrategyNumber
    /\ Cardinality(Range(a_last.prior.partitions)) = 2
    /\ Cardinality(PartitionsOfValues) = 1
    /\ Range(a_dri.partitions) = PartitionsOfValues

\* C19 (closed Slice Resolver): with strategy equal and partitions P the Slice
\* Resolver returns the slices of the dimension with range_start <= p <=
\* range_end for some p of P, each once, and none when P is empty.
C19_ClosedSlices ==
    (/\ a_last.op = "slices" /\ IsClosed(a_dri)
     /\ a_dri.strategy = BTEqualStrategyNumber) =>
        /\ Range(a_last.slices) =
              {s \in StoredSlices(a_dri.dimension) :
                  \E p \in Range(a_dri.partitions) : s.range_start <= p /\ p <= s.range_end}
        /\ NoDuplicates(a_last.slices)
        /\ a_dri.partitions = NIL => a_last.slices = <<>>

\* two partitions whose lookups both return the same slice
C19_Witness ==
    /\ a_last.op = "slices" /\ IsClosed(a_dri)
    /\ a_dri.strategy = BTEqualStrategyNumber
    /\ Len(a_dri.partitions) = 2
    /\ \E s \in Range(a_last.slices) :
          \A p \in Range(a_dri.partitions) : s.range_start <= p /\ p <= s.range_end

(***************************************************************************)
(* SpecCommute: two sets of one hypertable.  The left one ingests every    *)
(* clause as written; the right one ingests `column op' literal` in place  *)
(* of `literal op column`, op' being the commutator of op, and nothing in  *)
(* place of a clause whose operator has no commutator.                     *)
(***************************************************************************)
\* a binary clause with a column on the right and none on the left
ColumnOnRight(e) ==
    /\ e.tag = "OpExpr" /\ Len(e.args) = 2
    /\ e.args[1].node # "Var" /\ e.args[2].node = "Var"

\* the clause with its sides exchanged and the commutator as operator
Twin(e) == Clause(e.tag, <<e.args[2], e.args[1]>>, get_commutator(e.opno), e.useOr)

InitCommute ==
    /\ HriIdle
    /\ OrderIdle
    /\ JobIdle
    /\ BackoffIdle
    /\ QueryIdle
    /\ AccIdle
    /\ c_ht \in {Hypertable(types) :
                    types \in {t \in DimConfigs : \A i \in DOMAIN t : t[i] \in {"OPEN", "CLOSED"}}}
    /\ c_left = hypertable_restrict_info_create(c_ht)
    /\ c_right = hypertable_restrict_info_create(c_ht)
    /\ c_last = CLast(NoClause, NoClause)
    /\ c_n = 0

\* hypertable_restrict_info_add_restrict_info on both sets
Ingest(e) ==
    /\ c_n < MaxTwins
    /\ c_left' = hypertable_restrict_info_add_restrict_info(c_left, e).hri
    /\ IF ~ColumnOnRight(e)
       THEN /\ c_right' = hypertable_restrict_info_add_restrict_info(c_right, e).hri
            /\ c_last' = CLast(e, e)
       ELSE IF OidIsValid(get_commutator(e.opno))
       THEN /\ c_right' = hypertable_restrict_info_add_restrict_info(c_right, Twin(e)).hri
            /\ c_last' = CLast(e, Twin(e))
       ELSE /\ c_right' = c_right
            /\ c_last' = CLast(e, NoClause)
    /\ c_n' = c_n + 1
    /\ UNCHANGED <<c_ht, hriVars, orderVars, jobVars, backoffVars, queryVars, accVars>>

NextCommute == \E e \in Clauses : Ingest(e)

SpecCommute == InitCommute /\ [][NextCommute]_vars

\* C20 (operator commutation): `literal op column` changes the set as
\* `column op' literal` does, op' the commutator of op, and not at all when op
\* has no commutator.
C20_OperatorCommutation ==
    [][/\ c_left' = c_right'
       /\ (ColumnOnRight(c_last'.e) /\ ~OidIsValid(get_commutator(c_last'.e.opno))) =>
             c_left' = c_left]_vars

\* a counted clause, then `1 < column` of an open dimension, which has set the
\* lower bound with strategy > in both sets
C20_Witness ==
    /\ c_n = 2 /\ ColumnOnRight(c_last.e)
    /\ c_last.e.opno = "<" /\ c_last.e.args[1] = Const(<<1>>)
    /\ c_last.twin.opno = ">" /\ c_last.twin.args[1].node = "Var"
    /\ c_left.num_base_restrictions = 2
    /\ c_left = c_right
    /\ \E i \in 1..Len(c_ht) :
          /\ c_ht[i].type = "OPEN"
          /\ c_ht[i].column_attno = c_last.e.args[2].varattno
          /\ c_left.dimension_restriction[i].lower_strategy = BTGreaterStrategyNumber
          /\ c_left.dimension_restriction[i].lower_bound = time_value_to_internal(1)

\* the column of a clause: that of its first operand that is a column, 0 when
\* it has none
ClauseColumn(e) ==
    IF \E k \in DOMAIN e.args : e.args[k].node = "Var"
    THEN e.args[CHOOSE k \in DOMAIN e.args :
                    /\ e.args[k].node = "Var"
                    /\ \A j \in DOMAIN e.args : e.args[j].node = "Var" => k <= j].varattno
    ELSE 0

\* a set of one dimension that holds the accumulator dri alone
OneDimHri(dri) ==
    [num_base_restrictions |-> 0, num_dimensions |-> 1, dimension_restriction |-> <<dri>>]

\* C21 (dimension routing): a clause changes no accumulator of a dimension whose
\* column is not the clause's column, and changes the accumulator of its own
\* dimension as it would if that accumulator were alone in the set.
C21_DimensionRouting ==
    [][\A i \in 1..Len(c_ht) :
          IF c_ht[i].column_attno # ClauseColumn(c_last'.e)
          THEN c_left'.dimension_restriction[i] = c_left.dimension_restriction[i]
          ELSE c_left'.dimension_restriction[i] =
                  hypertable_restrict_info_add_restrict_info(
                      OneDimHri(c_left.dimension_restriction[i]), c_last'.e
                  ).hri.dimension_restriction[1]]_vars

\* two dimensions, a clause counted on the first, then one on the second
C21_Witness ==
    /\ c_n = 2 /\ Len(c_ht) = 2
    /\ ClauseColumn(c_last.e) = c_ht[2].column_attno
    /\ c_left.num_base_restrictions = 2
    /\ c_left.dimension_restriction[1] # dimension_restrict_info_create(c_ht[1])
    /\ c_left.dimension_restriction[2] # dimension_restrict_info_create(c_ht[2])

\* What next_start has to be after the most recent call, by the call.
NextStartAfterCall ==
    CASE j_last.op = "mark_start" -> job_stat.next_start = DT_NOBEGIN
      [] j_last.op = "mark_end" ->
            /\ ~j_last.error
            /\ job_stat.next_start # DT_NOBEGIN
            /\ job_stat.next_start =
                  IF j_set # DT_NOBEGIN THEN j_set
                  ELSE IF j_mark.result = JOB_SUCCESS
                  THEN job_stat.last_finish + job.schedule_interval
                  ELSE job_stat.last_finish
                       + BackoffWait([consecutive_failures |-> job_stat.consecutive_failures,
                                      schedule_interval |-> job.schedule_interval,
                                      retry_period |-> job.retry_period])
      [] j_last.op = "set_next_start" ->
            IF j_arg = DT_NOBEGIN THEN j_last.error
            ELSE job_stat # NoRow => ~j_last.error /\ job_stat.next_start = j_arg
      [] OTHER -> job_stat = NoRow

\* a call that ends in an error leaves the row as it was
ErrorChangesNothing == j_last'.error => job_stat' = job_stat

Max(a, b) == IF a >= b THEN a ELSE b

\* the minimum wait after a crash, in the model's time units
MinWaitAfterCrash == MIN_WAIT_AFTER_CRASH_MS \div MsPerTimeUnit

\* C23 (next start of a job): bgw_job_stat_next_start returns DT_NOBEGIN for a
\* job with no row; for a job with consecutive_crashes > 0 it returns the later
\* of now + 5 minutes and now + the failure backoff for consecutive_crashes,
\* which is never earlier than now + 5 minutes, whatever next_start is stored;
\* in every other case it returns the stored next_start.
C23_NextStartQuery ==
    q_result.done =>
        IF q_args.jobstat = NoRow THEN q_result.next_start = DT_NOBEGIN
        ELSE IF q_args.jobstat.consecutive_crashes > 0
        THEN /\ q_result.next_start >= q_args.now + MinWaitAfterCrash
             /\ q_result.next_start =
                   Max(q_args.now + MinWaitAfterCrash,
                       q_args.now
                       + BackoffWait([consecutive_failures |-> q_args.jobstat.consecutive_crashes,
                                      schedule_interval |-> q_args.job.schedule_interval,
                                      retry_period |-> q_args.job.retry_period]))
        ELSE q_result.next_start = q_args.jobstat.next_start

\* C24 (explicit-empty only on a contradiction): a closed accumulator is
\* explicit-empty only when no row satisfies all the equality clauses handed
\* to it so far, and the partition of every row that satisfies them is among
\* its candidates; an equality with ALL of an empty array, true for every
\* row, makes no accumulator explicit-empty and removes no partition.
C24_EmptyOnlyOnContradiction ==
    (IsClosed(a_dri) /\ a_dri.strategy = BTEqualStrategyNumber) =>
        /\ ExplicitEmpty(a_dri) => a_sat.eq = {}
        /\ \A x \in a_sat.eq : partitioning_func_apply(x) \in Range(a_dri.partitions)

\* p, an internal time value, lies inside the interval the accumulator holds
InsideInterval(dri, p) ==
    /\ dri.lower_strategy = InvalidStrategy \/ StrategyHolds(dri.lower_strategy, p, dri.lower_bound)
    /\ dri.upper_strategy = InvalidStrategy \/ StrategyHolds(dri.upper_strategy, p, dri.upper_bound)

\* C25 (open-dimension soundness): after any sequence of add calls on an open
\* accumulator, every value that satisfies all the clauses handed to add lies
\* inside the accumulated interval under the stored strategies, and in a slice
\* that the Slice Resolver returns for the accumulator.
C25_OpenSoundness ==
    IsOpen(a_dri) =>
        \A x \in a_sat.all :
            /\ InsideInterval(a_dri, time_value_to_internal(x))
            /\ a_last.op = "slices" =>
                  \E k \in DOMAIN a_last.slices :
                      InSlice(a_last.slices[k], time_value_to_internal(x))

\* three adds left one satisfying value of three, inside an interval bounded
\* on both sides, and the slices of the accumulator were resolved
C25_Witness ==
    /\ IsOpen(a_dri)
    /\ a_n = MaxAdds
    /\ a_last.op = "slices"
    /\ Cardinality(a_sat.all) = 1
    /\ a_dri.lower_strategy # InvalidStrategy
    /\ a_dri.upper_strategy # InvalidStrategy
    /\ a_dri.lower_bound < a_dri.upper_bound

\* the accumulator is not in the state its create left it in
NotUnset(dri) ==
    IF IsOpen(dri)
    THEN dri.lower_strategy # InvalidStrategy \/ dri.upper_strategy # InvalidStrategy
    ELSE dri.strategy = BTEqualStrategyNumber

RestrictionsIffNotUnset ==
    pc = "built" =>
        /\ hypertable_restrict_info_has_restrictions(hri) <=> \E i \in Dims : NotUnset(Dri(i))
        /\ \A i \in Dims : NotUnset(Dri(i)) <=> Dri(i) # dimension_restrict_info_create(ht[i])
        /\ hri.num_base_restrictions <= n_clauses

NotAddedChangesNothing ==
    (last'.op = "add" /\ ~last'.added) =>
        hri'.dimension_restriction = hri.dimension_restriction

\* C26 (restrictions and accumulators): once the set is built and through
\* every ingested clause, has_restrictions is true exactly when some
\* dimension's accumulator is not in its initial unset state, no add changes
\* an accumulator and reports "not added", and the success counter is at most
\* the number of clauses ingested.
C26_RestrictionsMatchAccumulators ==
    [](RestrictionsIffNotUnset) /\ [][NotAddedChangesNothing]_vars

\* an add that was counted, then one that reported "not added": one accumulator
\* restricted, the other unset
C26_Witness ==
    /\ pc = "built" /\ Len(ht) = 2
    /\ n_clauses = 2 /\ hri.num_base_restrictions = 1
    /\ last.op = "add" /\ last.dim # 0 /\ ~last.added
    /\ \E i \in Dims : NotUnset(Dri(i))
    /\ \E i \in Dims : ~NotUnset(Dri(i))

\* C27 (counters of a job's row): from the first mark_start on, through every
\* sequence of mark_start and mark_end calls in which a mark_end follows the
\* mark_start of its run, total_runs = total_success + total_failures +
\* total_crashes, the four counters are not negative, consecutive_failures is
\* the number of mark_end calls with a failure since the most recent one with
\* a success, and last_run_success holds exactly when the most recent of the
\* calls was a mark_end with a success.
C27_CounterConsistency ==
    job_stat # NoRow =>
        /\ job_stat.total_runs
              = job_stat.total_success + job_stat.total_failures + job_stat.total_crashes
        /\ job_stat.total_runs >= 0 /\ job_stat.total_success >= 0
        /\ job_stat.total_failures >= 0 /\ job_stat.total_crashes >= 0
        /\ job_stat.consecutive_failures = j_streak
        /\ job_stat.last_run_success <=> j_mark = JMark("mark_end", JOB_SUCCESS)

\* a success, then a failure, a run that never ended, and a run under way
C27_Witness ==
    /\ job_stat # NoRow
    /\ j_running
    /\ job_stat.total_success = 1
    /\ job_stat.total_failures = 1
    /\ job_stat.total_crashes = 2
    /\ job_stat.total_runs = 4
    /\ job_stat.consecutive_failures = 1

====
